---- MODULE Spec2Model ----
(***************************************************************************)
(* Model of the E-V-L verification framework (verification_agents.py), the *)
(* trend queries of the knowledge graph it consults (knowledge_graph.py)   *)
(* and the session orchestrator (financial_agent.py, rag_engine.py).       *)
(*                                                                         *)
(* Texts are sequences of whitespace-separated tokens: an alphabetic word, *)
(* a number written with digits and at most one decimal place, or a        *)
(* sentence period, which is written directly after the token before it.   *)
(* Confidence values and penalties are counted in hundredths.              *)
(***************************************************************************)
EXTENDS Integers, Sequences, FiniteSets, TLC

VARIABLES
    answer,           \* verify_answer: the answer text
    source_chunks,    \* verify_answer: the list of source chunks
    knowledge_graph,  \* verify_answer: the knowledge graph, or NoneKG
    ticker,           \* verify_answer: the ticker, or NoTicker
    pc,               \* "call" before verify_answer has run, "done" after
    ret,              \* what verify_answer returned
    raised,           \* the exception that left verify_answer, or "none"
    vectorstores,     \* session: key -> the index built for it
    documents,        \* session: key -> the chunk list
    knowledge_graphs, \* session: key -> the knowledge graph
    cache,            \* session: audit key -> audit record
    clock,            \* the second time.time() gave when it was last read
    task,             \* the call each thread is in: its position and locals
    batch_results,    \* the list batch_query collects and returns
    calls,            \* queries and loads asked for so far
    answered,         \* answers that query has returned
    succeeded,        \* keys for which load_ticker has returned "loaded"
    search,           \* search_similar_chunks: its arguments and what it returned
    graph,            \* knowledge graph: the nodes and edges of self.graph
    metadata,         \* knowledge graph: ticker -> the company's attributes
    metrics_history,  \* knowledge graph: ticker -> metric -> year -> value
    saved,            \* the JSON document save has written, or NotSaved
    kg_ret,           \* what the last call on the knowledge graph returned
    ops               \* calls made on the knowledge graph so far

verifyVars == <<answer, source_chunks, knowledge_graph, ticker, pc, ret, raised>>

sessionVars ==
    <<vectorstores, documents, knowledge_graphs, cache, clock, task, batch_results,
      calls, answered, succeeded>>

libVars == <<search, graph, metadata, metrics_history, saved, kg_ret, ops>>

vars == <<verifyVars, sessionVars, libVars>>

(***************************************************************************)
(* Text                                                                    *)
(***************************************************************************)
W(s) == [k |-> "w", s |-> s, d |-> <<>>]
N(d) == [k |-> "n", s |-> "", d |-> d]
Period == [k |-> "p", s |-> ".", d |-> <<>>]

DigitChars == <<"0", "1", "2", "3", "4", "5", "6", "7", "8", "9">>
DigitVal(c) == (CHOOSE i \in 1..10 : DigitChars[i] = c) - 1

\* str.lower() on the words of the vocabulary
Lower(s) ==
    CASE s = "Revenue" -> "revenue"
      [] s = "Margin" -> "margin"
      [] s = "Grew" -> "grew"
      [] s = "Apple" -> "apple"
      [] s = "Net" -> "net"
      [] s = "Billion" -> "billion"
      [] s = "EPS" -> "eps"
      [] OTHER -> s

Min(a, b) == IF a < b THEN a ELSE b

DotAt(d) ==
    IF \E i \in 1..Len(d) : d[i] = "."
    THEN CHOOSE i \in 1..Len(d) : d[i] = "." /\ \A j \in 1..(i - 1) : d[j] # "."
    ELSE 0
IntDigits(d) == IF DotAt(d) = 0 THEN d ELSE SubSeq(d, 1, DotAt(d) - 1)
FracDigits(d) == IF DotAt(d) = 0 THEN <<>> ELSE SubSeq(d, DotAt(d) + 1, Len(d))

RECURSIVE ParseNat(_)
ParseNat(d) ==
    IF d = <<>> THEN 0
    ELSE 10 * ParseNat(SubSeq(d, 1, Len(d) - 1)) + DigitVal(d[Len(d)])

\* float(text): the value in tenths (numbers carry at most one decimal place)
ParseFloat(d) ==
    10 * ParseNat(IntDigits(d))
        + (IF FracDigits(d) = <<>> THEN 0 ELSE DigitVal(FracDigits(d)[1]))

RECURSIVE NatToStr(_)
NatToStr(n) ==
    IF n < 10 THEN <<DigitChars[n + 1]>>
    ELSE NatToStr(n \div 10) \o <<DigitChars[(n % 10) + 1]>>

\* str(int(num)), f"{num:.1f}" and f"{num:.2f}" of a value in tenths
StrInt(num) == NatToStr(num \div 10)
Fmt1(num) == NatToStr(num \div 10) \o <<".">> \o <<DigitChars[(num % 10) + 1]>>
Fmt2(num) == Fmt1(num) \o <<"0">>

\* the characters a token contributes to the text; a word has no digit in it
TokLen(t) == IF t.k = "n" THEN Len(t.d) ELSE Len(t.s)

Contains(chars, form) ==
    \E i \in 0..(Len(chars) - Len(form)) : SubSeq(chars, i + 1, i + Len(form)) = form

\* `form in chunk_text` for a form made of digits and a decimal point
InText(form, text) ==
    \E i \in 1..Len(text) : text[i].k = "n" /\ Contains(text[i].d, form)

SeqsUpTo(S, n) == UNION {[1..k -> S] : k \in 0..n}

\* a chunk: its text, and the text its metadata carries
Chunk(meta_text, text) == [metadata |-> [text |-> meta_text], text |-> text]

\* chunk.get('metadata', {}).get('text', '') or chunk.get('text', '')
chunk_text_of(chunk) ==
    IF chunk.metadata.text # <<>> THEN chunk.metadata.text ELSE chunk.text

(***************************************************************************)
(* Agent E                                                                 *)
(***************************************************************************)
PenaltyE == 30

RECURSIVE NextNonWord(_, _)
NextNonWord(text, i) ==
    IF i > Len(text) \/ text[i].k # "w" THEN i ELSE NextNonWord(text, i + 1)

WordsOf(text, i, j) == [n \in 1..(j - i + 1) |-> text[i + n - 1].s]

\* re.findall of the number pattern: a number is matched when the run of
\* words after it ends at a punctuation mark or at the end of the text;
\* failing that, the pattern backtracks to the digits before a decimal point,
\* which the point itself then ends.
RECURSIVE extract_numbers_from(_, _)
extract_numbers_from(text, i) ==
    IF i > Len(text) THEN <<>>
    ELSE IF text[i].k # "n" THEN extract_numbers_from(text, i + 1)
    ELSE LET j == NextNonWord(text, i + 1)
             ends == j > Len(text) \/ text[j].k = "p"
         IN  IF ends
             THEN <<[num |-> ParseFloat(text[i].d), metric |-> WordsOf(text, i + 1, j - 1)]>>
                      \o extract_numbers_from(text, j)
             ELSE IF DotAt(text[i].d) # 0
             THEN <<[num |-> ParseFloat(IntDigits(text[i].d)), metric |-> <<>>]>>
                      \o extract_numbers_from(text, i + 1)
             ELSE extract_numbers_from(text, i + 1)

extract_numbers(text) == extract_numbers_from(text, 1)

NumberInChunk(num, chunk) ==
    \/ InText(StrInt(num), chunk_text_of(chunk))
    \/ InText(Fmt2(num), chunk_text_of(chunk))
    \/ InText(Fmt1(num), chunk_text_of(chunk))

\* the inner loop of cross_check_numbers, with its break
RECURSIVE found_from(_, _, _)
found_from(num, chunks, i) ==
    IF i > Len(chunks) THEN FALSE
    ELSE IF NumberInChunk(num, chunks[i]) THEN TRUE
    ELSE found_from(num, chunks, i + 1)

\* a variant that wants the number in every chunk
found_in_every_chunk(num, chunks) ==
    chunks # <<>> /\ \A i \in 1..Len(chunks) : NumberInChunk(num, chunks[i])

found(num, chunks) == found_from(num, chunks, 1)

cross_check_numbers(extracted_numbers, chunks) ==
    [valid_claims |-> SelectSeq(extracted_numbers, LAMBDA e : found(e.num, chunks)),
     hallucinations |-> SelectSeq(extracted_numbers, LAMBDA e : ~found(e.num, chunks))]

Result(agent, status, checked, flagged, reported, penalty) ==
    [agent |-> agent, status |-> status, checked |-> checked, flagged |-> flagged,
     corrections |-> reported, confidence_penalty |-> penalty]

\* verify, from the numbers of the answer and their cross-check on
E_result(numbers, cc) ==
    IF numbers = <<>> THEN Result("E", "PASS", <<>>, <<>>, <<>>, 0)
    ELSE IF cc.hallucinations = <<>>
    THEN Result("E", "PASS", cc.valid_claims, <<>>, <<>>, 0)
    ELSE Result("E", "FAIL", cc.valid_claims, cc.hallucinations,
                cc.valid_claims \o cc.hallucinations, PenaltyE)

E_checked(numbers, chunks) == E_result(numbers, cross_check_numbers(numbers, chunks))

AgentE_verify(text, chunks) == E_checked(extract_numbers(text), chunks)

(***************************************************************************)
(* Agent V                                                                 *)
(***************************************************************************)
PenaltyV == 25
MinClaimChars == 10
MinWordChars == 3

\* a number with a decimal point is cut in two by the sentence split
RECURSIVE Explode(_)
Explode(text) ==
    IF text = <<>> THEN <<>>
    ELSE LET t == Head(text)
         IN  (IF t.k = "n" /\ DotAt(t.d) # 0
              THEN <<N(IntDigits(t.d)), Period, N(FracDigits(t.d))>>
              ELSE <<t>>) \o Explode(Tail(text))

\* re.split(r'[\.!\?]+', text): the fragments between sentence marks
RECURSIVE SplitAt(_, _)
SplitAt(toks, cur) ==
    IF toks = <<>> THEN <<cur>>
    ELSE IF Head(toks).k = "p" THEN <<cur>> \o SplitAt(Tail(toks), <<>>)
    ELSE SplitAt(Tail(toks), Append(cur, Head(toks)))

RECURSIVE SumLen(_)
SumLen(frag) == IF frag = <<>> THEN 0 ELSE TokLen(Head(frag)) + SumLen(Tail(frag))

\* len(s.strip()): the tokens and one blank between neighbours
StripLen(frag) == IF frag = <<>> THEN 0 ELSE SumLen(frag) + Len(frag) - 1

extract_claims(text) ==
    SelectSeq(SplitAt(Explode(text), <<>>), LAMBDA f : StripLen(f) > MinClaimChars)

LowerTok(t) == IF t.k = "w" THEN W(Lower(t.s)) ELSE t

\* set(claim.lower().split()) without the words of at most 3 characters
claim_words(claim) ==
    {LowerTok(claim[i]) : i \in {j \in 1..Len(claim) : TokLen(claim[j]) > MinWordChars}}

\* set(chunk_text.lower().split()): a sentence period stays on its word
chunk_words(text) ==
    {IF i < Len(text) /\ text[i + 1].k = "p"
     THEN [k |-> text[i].k, s |-> Lower(text[i].s) \o ".", d |-> text[i].d \o <<".">>]
     ELSE LowerTok(text[i]) : i \in {j \in 1..Len(text) : text[j].k # "p"}}

\* the loop of check_claim_support: every overlap has the divisor
\* len(claim_words) + 1e-6, so the largest overlap is that of the largest count
Max(a, b) == IF a > b THEN a ELSE b

RECURSIVE max_common(_, _, _, _)
max_common(cw, chunks, i, best) ==
    IF i > Len(chunks) THEN best
    ELSE max_common(cw, chunks, i + 1,
                    Max(best, Cardinality(cw \cap chunk_words(chunk_text_of(chunks[i])))))

\* a variant that also accepts an overlap of exactly 0.4
overlap_at_least(common, total) == 10 * common >= 4 * total

\* max_overlap > 0.4, with max_overlap = common / (len(claim_words) + 1e-6)
overlap_supported(common, total) == 10 * 1000000 * common > 4 * (1000000 * total + 1)

words_supported(cw, chunks) ==
    overlap_supported(max_common(cw, chunks, 1, 0), Cardinality(cw))

check_claim_support(claim, chunks) == words_supported(claim_words(claim), chunks)

\* verify, from the claims of the answer sorted into supported and unsupported
V_result(claims, supported, unsupported) ==
    IF claims = <<>> THEN Result("V", "PASS", <<>>, <<>>, <<>>, 0)
    ELSE IF unsupported = <<>> THEN Result("V", "PASS", supported, <<>>, <<>>, 0)
    ELSE Result("V", "FAIL", supported, unsupported,
                SubSeq(unsupported, 1, Min(2, Len(unsupported))), PenaltyV)

V_checked(claims, chunks) ==
    V_result(claims,
             SelectSeq(claims, LAMBDA c : check_claim_support(c, chunks)),
             SelectSeq(claims, LAMBDA c : ~check_claim_support(c, chunks)))

AgentV_verify(text, chunks) == V_checked(extract_claims(text), chunks)

(***************************************************************************)
(* Knowledge graph: the metric history and its trend                       *)
(***************************************************************************)
EmptyMap == [x \in {} |-> 0]
NoneKG == [is_none |-> TRUE, metrics_history |-> EmptyMap]
KG(history) == [is_none |-> FALSE, metrics_history |-> history]
NoTicker == ""
TrendBandPct == 5

\* get_metrics: the years of one metric, or, for a metric name that is empty,
\* the whole mapping from metric names to their years
get_metrics(kg, t, metric_name) ==
    IF t \notin DOMAIN kg.metrics_history THEN [whole |-> FALSE, map |-> EmptyMap]
    ELSE IF metric_name # ""
    THEN [whole |-> FALSE,
          map |-> IF metric_name \in DOMAIN kg.metrics_history[t]
                  THEN kg.metrics_history[t][metric_name] ELSE EmptyMap]
    ELSE [whole |-> TRUE, map |-> kg.metrics_history[t]]

RECURSIVE Sorted(_)
Sorted(S) ==
    IF S = {} THEN <<>>
    ELSE LET m == CHOOSE x \in S : \A y \in S : x <= y
         IN  <<m>> \o Sorted(S \ {m})

Abs(x) == IF x < 0 THEN -x ELSE x

\* a band that counts its edges as up and down
trend_of_closed_band(first, last) ==
    IF first # 0 /\ (last - first) * 100 >= TrendBandPct * Abs(first) THEN "up"
    ELSE IF first # 0 /\ (last - first) * 100 <= -TrendBandPct * Abs(first) THEN "down"
    ELSE "stable"

\* change_pct > 5, < -5 or neither, for change_pct = (last - first) / |first| * 100
trend_of(first, last) ==
    IF first # 0 /\ (last - first) * 100 > TrendBandPct * Abs(first) THEN "up"
    ELSE IF first # 0 /\ (last - first) * 100 < -TrendBandPct * Abs(first) THEN "down"
    ELSE "stable"

UnknownTrend == [raised |-> "none", years |-> <<>>, values |-> <<>>, trend |-> "unknown"]

\* the trend over the sorted years of a metric
trend_over(map, years) ==
    [raised |-> "none", years |-> years,
     values |-> [i \in 1..Len(years) |-> map[years[i]]],
     trend |-> trend_of(map[years[1]], map[years[Len(years)]])]

\* get_trend, from what get_metrics gave; subtracting two values of the whole
\* mapping is a TypeError
trend_from(m) ==
    IF Cardinality(DOMAIN m.map) < 2 THEN UnknownTrend
    ELSE IF m.whole THEN [UnknownTrend EXCEPT !.raised = "TypeError"]
    ELSE trend_over(m.map, Sorted(DOMAIN m.map))

get_trend(kg, t, metric_name) == trend_from(get_metrics(kg, t, metric_name))

(***************************************************************************)
(* Agent L                                                                 *)
(***************************************************************************)
PenaltyL == 15
GrowthVerbs == {"grew", "increased", "rose", "climbed"}
DeclineVerbs == {"declined", "decreased", "fell", "dropped"}
StableWords == {"stable"}
BareStableWords == {"flat", "consistent"}

RECURSIVE Join(_)
Join(d) == IF d = <<>> THEN "" ELSE Head(d) \o Join(Tail(d))

\* what (\w+) captures of a token: the word, or the digits after the last point
IsWordish(t) == t.k \in {"w", "n"}
Captured(t) == IF t.k = "w" THEN t.s ELSE Join(IF DotAt(t.d) = 0 THEN t.d ELSE FracDigits(t.d))
IsOneOf(t, words) == t.k = "w" /\ Lower(t.s) \in words

\* re.findall(r'(\w+)\s+(?:verb|...)', text, re.IGNORECASE)
RECURSIVE find_verb_claims(_, _, _)
find_verb_claims(text, i, verbs) ==
    IF i >= Len(text) THEN <<>>
    ELSE IF IsWordish(text[i]) /\ IsOneOf(text[i + 1], verbs)
    THEN <<Captured(text[i])>> \o find_verb_claims(text, i + 2, verbs)
    ELSE find_verb_claims(text, i + 1, verbs)

\* re.findall(r'(\w+)\s+(?:was\s+)?stable|flat|consistent', text, re.IGNORECASE):
\* the alternatives flat and consistent stand alone and capture nothing
RECURSIVE find_stable_claims(_, _)
find_stable_claims(text, i) ==
    IF i > Len(text) THEN <<>>
    ELSE IF IsWordish(text[i]) /\ i + 1 <= Len(text) /\ IsOneOf(text[i + 1], StableWords)
    THEN <<Captured(text[i])>> \o find_stable_claims(text, i + 2)
    ELSE IF /\ IsWordish(text[i]) /\ i + 2 <= Len(text)
            /\ IsOneOf(text[i + 1], {"was"}) /\ IsOneOf(text[i + 2], StableWords)
    THEN <<Captured(text[i])>> \o find_stable_claims(text, i + 3)
    ELSE IF IsOneOf(text[i], BareStableWords)
    THEN <<"">> \o find_stable_claims(text, i + 1)
    ELSE find_stable_claims(text, i + 1)

Tagged(metrics, trend) == [i \in 1..Len(metrics) |-> [metric |-> metrics[i], trend |-> trend]]

extract_trend_claims(text) ==
    Tagged(find_verb_claims(text, 1, GrowthVerbs), "growth")
        \o Tagged(find_verb_claims(text, 1, DeclineVerbs), "decline")
        \o Tagged(find_stable_claims(text, 1), "stable")

\* actual_trend != claimed_trend
trend_differs(actual_trend, claimed_trend) == actual_trend # claimed_trend

\* the loop of verify over the trend claims; an exception of get_trend ends it
RECURSIVE check_trends(_, _, _, _, _)
\* one trend claim against the trend tr that get_trend gave for its metric
check_trend(kg, t, claims, i, anomalies, tr) ==
    IF tr.raised # "none" THEN [raised |-> tr.raised, anomalies |-> anomalies]
    ELSE IF /\ tr.years # <<>> /\ tr.trend # "unknown"
            /\ trend_differs(tr.trend, claims[i].trend)
    THEN check_trends(kg, t, claims, i + 1,
             Append(anomalies, [metric |-> claims[i].metric,
                                claimed |-> claims[i].trend,
                                actual |-> tr.trend]))
    ELSE check_trends(kg, t, claims, i + 1, anomalies)

check_trends(kg, t, claims, i, anomalies) ==
    IF i > Len(claims) THEN [raised |-> "none", anomalies |-> anomalies]
    ELSE check_trend(kg, t, claims, i, anomalies, get_trend(kg, t, Lower(claims[i].metric)))

NoResult == Result("", "", <<>>, <<>>, <<>>, 0)

Passed(r) == [raised |-> "none", result |-> r]

\* verify, from the trend claims of the answer and their check
L_result(trend_claims, chk) ==
    IF chk.raised # "none" THEN [raised |-> chk.raised, result |-> NoResult]
    ELSE IF chk.anomalies = <<>>
    THEN Passed(Result("L", "PASS", trend_claims, <<>>, <<>>, 0))
    ELSE Passed(Result("L", "FAIL", trend_claims, chk.anomalies,
                       SubSeq(chk.anomalies, 1, Min(2, Len(chk.anomalies))), PenaltyL))

L_checked(trend_claims, kg, t) ==
    IF trend_claims = <<>> THEN Passed(Result("L", "PASS", <<>>, <<>>, <<>>, 0))
    ELSE L_result(trend_claims, check_trends(kg, t, trend_claims, 1, <<>>))

\* a verify without the guard of line 190: None has no get_trend
AgentL_verify_unguarded(text, kg, t) ==
    IF kg.is_none /\ extract_trend_claims(text) # <<>>
    THEN [raised |-> "AttributeError", result |-> NoResult]
    ELSE L_checked(extract_trend_claims(text), kg, t)

AgentL_verify(text, kg, t) ==
    IF kg.is_none \/ t = NoTicker THEN Passed(Result("L", "PASS", <<>>, <<>>, <<>>, 0))
    ELSE L_checked(extract_trend_claims(text), kg, t)

(***************************************************************************)
(* The framework                                                           *)
(***************************************************************************)
BasePass == 95
BaseFail == 60
FullConfidence == 100

\* a variant that keeps the base of a passing answer
base_always_pass(all_pass) == BasePass

\* 0.95 if all_pass else 0.60
base_confidence_of(all_pass) == IF all_pass THEN BasePass ELSE BaseFail

RECURSIVE SumPenalty(_)
SumPenalty(results) ==
    IF results = <<>> THEN 0
    ELSE Head(results).confidence_penalty + SumPenalty(Tail(results))

\* a cut that lets a score below 0 through
clamp_above_only(x, lo, hi) == IF x > hi THEN hi ELSE x

Clamp(x, lo, hi) == IF x < lo THEN lo ELSE IF x > hi THEN hi ELSE x

NoReturn ==
    [all_pass |-> FALSE, confidence_adjustment |-> 0, agent_results |-> <<>>,
     final_confidence_score |-> 0]

\* lines 278-295, from the three results
aggregate(results, all_pass, total_penalty) ==
    [raised |-> "none",
     value |-> [all_pass |-> all_pass,
                confidence_adjustment |-> -total_penalty,
                agent_results |-> results,
                final_confidence_score |->
                    Clamp(base_confidence_of(all_pass) - total_penalty, 0, FullConfidence)]]

all_passed(results) == \A i \in 1..Len(results) : results[i].status = "PASS"

\* a framework that stops at the first agent that fails
verified_until_failure(result_e, result_v, l) ==
    IF result_e.status = "FAIL" THEN aggregate(<<result_e>>, FALSE, SumPenalty(<<result_e>>))
    ELSE IF result_v.status = "FAIL"
    THEN aggregate(<<result_e, result_v>>, FALSE, SumPenalty(<<result_e, result_v>>))
    ELSE IF l.raised # "none" THEN [raised |-> l.raised, value |-> NoReturn]
    ELSE aggregate(<<result_e, result_v, l.result>>,
                   all_passed(<<result_e, result_v, l.result>>),
                   SumPenalty(<<result_e, result_v, l.result>>))

\* an exception of Agent L leaves verify_answer
verified(result_e, result_v, l) ==
    IF l.raised # "none" THEN [raised |-> l.raised, value |-> NoReturn]
    ELSE aggregate(<<result_e, result_v, l.result>>,
                   all_passed(<<result_e, result_v, l.result>>),
                   SumPenalty(<<result_e, result_v, l.result>>))

verify_answer(text, chunks, kg, t) ==
    verified(AgentE_verify(text, chunks), AgentV_verify(text, chunks),
             AgentL_verify(text, kg, t))

(***************************************************************************)
(* knowledge_graph.py: the metrics extracted from a chunk's text           *)
(***************************************************************************)
Put(f, k, v) == [x \in DOMAIN f \cup {k} |-> IF x = k THEN v ELSE f[x]]

\* the words the unit of a pattern matches (the patterns ignore case)
BillionWords == {"B", "b", "Billion", "billion"}
MillionWords == {"M", "m", "Million", "million"}
PercentSign == {"%"}
NoUnit == {}

\* a comma that stands alone: [0-9,]+ takes it for the number of a pattern
Comma == [k |-> "c", s |-> ",", d |-> <<>>]

Pattern(keywords, units, scale) == [keywords |-> keywords, units |-> units, scale |-> scale]

rev_patterns ==
    <<Pattern({"revenue"}, BillionWords, "1e9"), Pattern({"revenue"}, MillionWords, "1e6"),
      Pattern({"sales"}, BillionWords, "1e9"), Pattern({"sales"}, MillionWords, "1e6")>>

ni_patterns ==
    <<Pattern({"income"}, BillionWords, "1e9"), Pattern({"income"}, MillionWords, "1e6"),
      Pattern({"profit"}, BillionWords, "1e9"), Pattern({"profit"}, MillionWords, "1e6")>>

margin_patterns == <<Pattern({"margin"}, PercentSign, "1"), Pattern({"margin"}, PercentSign, "1")>>

eps_patterns == <<Pattern({"eps"}, NoUnit, "1")>>

\* keyword, white space, the number (digits or commas), then the unit if
\* the pattern has one
pattern_matches_at(text, i, p) ==
    /\ i + 1 <= Len(text)
    /\ text[i].k = "w" /\ Lower(text[i].s) \in p.keywords
    /\ text[i + 1].k \in {"n", "c"}
    /\ \/ p.units = NoUnit
       \/ /\ i + 2 <= Len(text)
          /\ text[i + 2].k = "w"
          /\ text[i + 2].s \in p.units

\* re.search: the position of the leftmost match, or 0
re_search(text, p) ==
    LET at == {i \in 1..Len(text) : pattern_matches_at(text, i, p)}
    IN  IF at = {} THEN 0 ELSE CHOOSE i \in at : \A j \in at : i <= j

NoMatch == [found |-> FALSE, value |-> [tenths |-> 0, scale |-> "1"]]

\* the first pattern of the list that matches gives the value:
\* float(group 1) in tenths, and the multiplier; float raises on a group
\* without a digit, which except: pass answers, and the loop goes on
RECURSIVE first_pattern(_, _, _)
matched_at(text, patterns, j, i) ==
    IF i # 0 /\ text[i + 1].k = "c" THEN first_pattern(text, patterns, j + 1)
    ELSE IF i # 0
    THEN [found |-> TRUE,
          value |-> [tenths |-> ParseFloat(text[i + 1].d), scale |-> patterns[j].scale]]
    ELSE first_pattern(text, patterns, j + 1)

first_pattern(text, patterns, j) ==
    IF j > Len(patterns) THEN NoMatch
    ELSE matched_at(text, patterns, j, re_search(text, patterns[j]))

MetricPatterns ==
    [m \in {"revenue", "net_income", "margin", "eps"} |->
        CASE m = "revenue" -> rev_patterns
          [] m = "net_income" -> ni_patterns
          [] m = "margin" -> margin_patterns
          [] OTHER -> eps_patterns]

\* the dict of metrics extract_metrics_from_text returns
metrics_of(hit) == [m \in {n \in DOMAIN hit : hit[n].found} |-> hit[m].value]

extracted_metrics(text) ==
    metrics_of([m \in DOMAIN MetricPatterns |-> first_pattern(text, MetricPatterns[m], 1)])

\* an add that leaves a value that is already there
add_metric_keeps_first(history, t, metric_name, value, year) ==
    IF t \in DOMAIN history /\ metric_name \in DOMAIN history[t]
       /\ year \in DOMAIN history[t][metric_name]
    THEN history
    ELSE Put(history, t,
             Put(IF t \in DOMAIN history THEN history[t] ELSE EmptyMap, metric_name,
                 Put(IF t \in DOMAIN history /\ metric_name \in DOMAIN history[t]
                     THEN history[t][metric_name] ELSE EmptyMap, year, value)))

\* add_metric_node on metrics_history
add_metric_node(history, t, metric_name, value, year) ==
    LET of_ticker == IF t \in DOMAIN history THEN history[t] ELSE EmptyMap
        of_metric == IF metric_name \in DOMAIN of_ticker THEN of_ticker[metric_name]
                     ELSE EmptyMap
    IN  Put(history, t, Put(of_ticker, metric_name, Put(of_metric, year, value)))

RECURSIVE add_metrics(_, _, _, _, _)
add_metrics(history, t, metrics, names, year) ==
    IF names = {} THEN history
    ELSE LET n == CHOOSE x \in names : TRUE
         IN  add_metrics(add_metric_node(history, t, n, metrics[n], year),
                         t, metrics, names \ {n}, year)

\* extract_metrics_from_text: the metrics_history after the call
add_all_metrics(history, t, metrics, year) ==
    add_metrics(history, t, metrics, DOMAIN metrics, year)

extract_metrics_from_text(history, text, t, year) ==
    add_all_metrics(history, t, extracted_metrics(text), year)

(***************************************************************************)
(* financial_agent.py, rag_engine.py: the session of UnifiedFinancialAgent *)
(*                                                                         *)
(* A call runs as a task: the main thread's call is task MainThread, the   *)
(* threads of batch_query are the tasks of Workers.  A task takes one step *)
(* for each access to the session's maps; what a call computes between two *)
(* accesses on objects of its own belongs to the step before it.           *)
(***************************************************************************)
MaxCalls == 2     \* queries and loads the session is asked for
MaxBatch == 2     \* queries of one batch_query
MaxClock == 1     \* seconds the clock advances

MainThread == 0
Workers == 1..MaxBatch
Tasks == {MainThread} \cup Workers

ExtractionYear == 2024
DefaultConfidence == 80
NoneScore == -1
DigitScore == 40
SourcesScore == 40
PerSourceScore == 5
PerSourceCap == 20
FullScore == 100
ManySources == 2

key_of(t, market) == market \o "::" \o t

\* an object a load builds is known by the call and the thread that built it
NoBuild == <<0, 0>>
NoVS == [present |-> FALSE, build |-> NoBuild, metadata |-> <<>>]
NoGraph == [is_none |-> TRUE, metrics_history |-> EmptyMap, sector |-> "", build |-> NoBuild]

\* a return value: of load_ticker (status, documents, error) or of query
\* (error, or the answer with its sources, confidence and verdict)
NoRet ==
    [status |-> "", documents |-> 0, error |-> "", has_answer |-> FALSE, answer |-> <<>>,
     source_documents |-> <<>>, confidence_score |-> NoneScore, all_agents_pass |-> "none"]

IdleTask ==
    [pc |-> "idle", op |-> "none", nested |-> FALSE, ticker |-> "", market |-> "",
     question |-> "", ver |-> FALSE, chunks |-> <<>>, vs |-> NoVS, kg |-> NoGraph,
     failure |-> "", load_ret |-> NoRet, ret |-> NoRet, raised |-> "none"]

Started(op, req, ver, at) ==
    [IdleTask EXCEPT !.pc = at, !.op = op, !.ticker = req.ticker, !.market = req.market,
                     !.question = req.question, !.ver = ver]

key(t) == key_of(task[t].ticker, task[t].market)

\* key in self.vectorstores
resident_never(store, k) == FALSE

resident(store, k) == k \in DOMAIN store

\* an exception leaves the call: the main thread's caller sees it, a thread
\* of batch_query dies of it
raises(t, tk, e) ==
    [tk EXCEPT !.raised = e, !.pc = IF t = MainThread THEN "done" ELSE "dead"]

\* query returns r: to the caller, or to worker, which appends it
returns(t, tk, r) ==
    [tk EXCEPT !.ret = r, !.pc = IF t = MainThread THEN "done" ELSE "append"]

\* load_ticker returns r, and its locals are gone: to the caller, or to
\* query, which goes on at line 63
load_returns(tk, r) ==
    LET left == [tk EXCEPT !.load_ret = r, !.chunks = <<>>, !.vs = NoVS]
    IN  IF tk.nested THEN [left EXCEPT !.pc = "Q3"]
        ELSE [left EXCEPT !.ret = r, !.pc = "done"]

\* load_ticker's handler of an exception e of a collaborator
load_reraises(e) == [raised |-> e, ret |-> NoRet]

load_failed(e) ==
    [raised |-> "none", ret |-> [NoRet EXCEPT !.status = "error", !.error = e]]

VectorStore(build, chunks) ==
    [present |-> TRUE, build |-> build,
     metadata |-> [i \in 1..Len(chunks) |-> chunks[i].metadata]]

RECURSIVE extract_all(_, _, _, _)
extract_all(history, chunks, i, t) ==
    IF i > Len(chunks) THEN history
    ELSE extract_all(extract_metrics_from_text(history, chunks[i].text, t, ExtractionYear),
                     chunks, i + 1, t)

\* an extraction that files chunk i under the year of its place
RECURSIVE extract_all_by_place(_, _, _, _)
extract_all_by_place(history, chunks, i, t) ==
    IF i > Len(chunks) THEN history
    ELSE extract_all_by_place(
             extract_metrics_from_text(history, chunks[i].text, t, ExtractionYear + i - 1),
             chunks, i + 1, t)

build_graph_by_place(t, chunks, build) ==
    [is_none |-> FALSE,
     metrics_history |-> extract_all_by_place(EmptyMap, chunks, 1, t),
     sector |-> IF t \in {"AAPL", "MSFT"} THEN "Technology" ELSE "Finance",
     build |-> build]

\* the knowledge graph load_ticker builds from the chunks
build_graph(t, chunks, build) ==
    [is_none |-> FALSE,
     metrics_history |-> extract_all(EmptyMap, chunks, 1, t),
     sector |-> IF t \in {"AAPL", "MSFT"} THEN "Technology" ELSE "Finance",
     build |-> build]

\* search_similar_chunks: some of the index's metadata, in its order
search_similar_chunks(vs) ==
    {[i \in 1..Cardinality(S) |-> vs.metadata[Sorted(S)[i]]] : S \in SUBSET (1..Len(vs.metadata))}

\* the sources in the form the verifier expects
verification_sources(sources) ==
    [i \in 1..Len(sources) |-> Chunk(sources[i].text, sources[i].text)]

\* generate_answer, for the hits of the search and the generator's text
generated(hits, text, enable_verification, v) ==
    IF enable_verification /\ v.raised # "none"
    THEN [raised |-> v.raised, value |-> NoRet]
    ELSE [raised |-> "none",
          value |-> [NoRet EXCEPT
              !.has_answer = TRUE,
              !.answer = text,
              !.source_documents = hits,
              !.confidence_score =
                  IF enable_verification THEN v.value.final_confidence_score
                  ELSE DefaultConfidence,
              !.all_agents_pass =
                  IF ~enable_verification THEN "none"
                  ELSE IF v.value.all_pass THEN "pass" ELSE "fail"]]

generate_answer(hits, text, kg, t, enable_verification) ==
    generated(hits, text, enable_verification,
              verify_answer(text, verification_sources(hits), kg, t))

calculate_confidence_score(text, sources) ==
    LET digits == IF \E i \in 1..Len(text) : text[i].k = "n" THEN DigitScore ELSE 0
        many == IF Len(sources) >= ManySources THEN SourcesScore ELSE 0
    IN  Min(FullScore, digits + many + Min(PerSourceCap, PerSourceScore * Len(sources)))

\* query: the confidence is calculated when generate_answer gave none
with_confidence(res) ==
    IF res.confidence_score = NoneScore
    THEN [res EXCEPT !.confidence_score =
              calculate_confidence_score(res.answer, res.source_documents)]
    ELSE res

\* track_audit_trail: the record and the key it is stored under
audit_record(now, tk) ==
    [timestamp |-> now, query |-> tk.question, retrieved |-> tk.ret.source_documents,
     answer_excerpt |-> tk.ret.answer, confidence |-> tk.ret.confidence_score]

audit_key(now) == "audit::" \o ToString(now)

(***************************************************************************)
(* What the session's collaborators can give                               *)
(***************************************************************************)
Requests ==
    {[ticker |-> "AAPL", market |-> "US", question |-> "How did revenue develop?"],
     [ticker |-> "TCS", market |-> "IN", question |-> "How did revenue develop?"]}

\* the queries of one batch_query
Batches == UNION {[1..n -> Requests] : n \in 1..MaxBatch}

\* str(e) of the exceptions of fetching, validating, chunking and indexing
Failures == {"no filing produced", "index build failed"}

\* the chunks of the documents that fetching and chunking can produce
DocPool ==
    LET DocText == <<W("revenue"), N(<<"3", "9", "4", ".", "3">>), W("Billion"),
                     W("income"), N(<<"9", "7">>), W("billion"), W("flat")>>
    IN  {<<Chunk(DocText, DocText)>>,
         <<Chunk(<<W("Revenue"), W("grew")>>, <<W("Revenue"), W("grew")>>)>>}

\* the texts the generator can return
AnswerPool ==
    {<<W("revenue"), N(<<"3", "9", "4", ".", "3">>), W("Billion")>>,
     <<W("income"), W("flat")>>}

(***************************************************************************)
(* The main thread's calls                                                 *)
(***************************************************************************)
MainFree(n) == task[MainThread].pc \in {"idle", "done"} /\ calls + n <= MaxCalls

\* load_ticker(ticker, market)
CallLoad(req) ==
    /\ MainFree(1)
    /\ task' = [task EXCEPT ![MainThread] = Started("load", req, FALSE, "L1")]
    /\ calls' = calls + 1
    /\ UNCHANGED <<vectorstores, documents, knowledge_graphs, cache, clock, batch_results,
                   answered, succeeded, verifyVars, libVars>>

\* query(ticker, question, market, enable_verification)
CallQuery(req, enable_verification) ==
    /\ MainFree(1)
    /\ task' = [task EXCEPT ![MainThread] = Started("query", req, enable_verification, "Q1")]
    /\ calls' = calls + 1
    /\ UNCHANGED <<vectorstores, documents, knowledge_graphs, cache, clock, batch_results,
                   answered, succeeded, verifyVars, libVars>>

\* batch_query(queries), lines 110-120: a thread is started for every query
CallBatch(queries) ==
    /\ MainFree(Len(queries))
    /\ task' = [t \in Tasks |->
                   IF t = MainThread THEN [IdleTask EXCEPT !.pc = "join", !.op = "batch"]
                   ELSE IF t <= Len(queries) THEN Started("query", queries[t], TRUE, "Q1")
                   ELSE IdleTask]
    /\ batch_results' = <<>>
    /\ calls' = calls + Len(queries)
    /\ UNCHANGED <<vectorstores, documents, knowledge_graphs, cache, clock,
                   answered, succeeded, verifyVars, libVars>>

\* batch_query, lines 121-123: the threads are joined, the list is returned
JoinThreads ==
    /\ task[MainThread].pc = "join"
    /\ \A w \in Workers : task[w].pc \in {"idle", "done", "dead"}
    /\ task' = [t \in Tasks |->
                   IF t = MainThread THEN [task[t] EXCEPT !.pc = "done"] ELSE IdleTask]
    /\ UNCHANGED <<vectorstores, documents, knowledge_graphs, cache, clock, batch_results,
                   calls, answered, succeeded, verifyVars, libVars>>

(***************************************************************************)
(* load_ticker                                                             *)
(***************************************************************************)
\* line 22-23: the key is resident
LoadCached(t) ==
    /\ task[t].pc = "L1"
    /\ resident(vectorstores, key(t))
    /\ LET n == IF key(t) \in DOMAIN documents THEN Len(documents[key(t)].chunks) ELSE 0
       IN  task' = [task EXCEPT ![t] =
                       load_returns(task[t], [NoRet EXCEPT !.status = "cached",
                                                           !.documents = n])]
    /\ UNCHANGED <<vectorstores, documents, knowledge_graphs, cache, clock, batch_results,
                   calls, answered, succeeded, verifyVars, libVars>>

\* lines 24-35 and 55-57: a collaborator raises e
LoadFail(t, e) ==
    /\ task[t].pc = "L1"
    /\ ~resident(vectorstores, key(t))
    /\ LET handled == load_failed(e)
           tk == [task[t] EXCEPT !.failure = e]
       IN  task' = [task EXCEPT ![t] =
                       IF handled.raised # "none" THEN raises(t, tk, handled.raised)
                       ELSE load_returns(tk, handled.ret)]
    /\ UNCHANGED <<vectorstores, documents, knowledge_graphs, cache, clock, batch_results,
                   calls, answered, succeeded, verifyVars, libVars>>

\* lines 24-35: the document is fetched and chunked, the index is built
LoadBuild(t, doc) ==
    /\ task[t].pc = "L1"
    /\ ~resident(vectorstores, key(t))
    /\ task' = [task EXCEPT ![t] =
                   [@ EXCEPT !.chunks = doc, !.vs = VectorStore(<<calls, t>>, doc),
                             !.pc = "L3"]]
    /\ UNCHANGED <<vectorstores, documents, knowledge_graphs, cache, clock, batch_results,
                   calls, answered, succeeded, verifyVars, libVars>>

\* line 36
StoreIndex(t) ==
    /\ task[t].pc = "L3"
    /\ vectorstores' = Put(vectorstores, key(t), task[t].vs)
    /\ task' = [task EXCEPT ![t].pc = "L4"]
    /\ UNCHANGED <<documents, knowledge_graphs, cache, clock, batch_results,
                   calls, answered, succeeded, verifyVars, libVars>>

\* line 37
StoreChunks(t) ==
    /\ task[t].pc = "L4"
    /\ documents' = Put(documents, key(t),
                        [build |-> task[t].vs.build, chunks |-> task[t].chunks])
    /\ task' = [task EXCEPT ![t].pc = "L5"]
    /\ UNCHANGED <<vectorstores, knowledge_graphs, cache, clock, batch_results,
                   calls, answered, succeeded, verifyVars, libVars>>

\* lines 40-54: the graph is built and stored, the call returns "loaded"
StoreGraph(t) ==
    /\ task[t].pc = "L5"
    /\ knowledge_graphs' =
           Put(knowledge_graphs, key(t),
               build_graph(task[t].ticker, task[t].chunks, task[t].vs.build))
    /\ succeeded' = succeeded \cup {key(t)}
    /\ task' = [task EXCEPT ![t] =
                   load_returns(task[t], [NoRet EXCEPT !.status = "loaded",
                                                       !.documents = Len(task[t].chunks)])]
    /\ UNCHANGED <<vectorstores, documents, cache, clock, batch_results,
                   calls, answered, verifyVars, libVars>>

(***************************************************************************)
(* query                                                                   *)
(***************************************************************************)
\* lines 61-62
QueryCheck(t) ==
    /\ task[t].pc = "Q1"
    /\ task' = [task EXCEPT ![t] =
                   IF ~resident(vectorstores, key(t))
                   THEN [@ EXCEPT !.nested = TRUE, !.pc = "L1"]
                   ELSE [@ EXCEPT !.pc = "Q3"]]
    /\ UNCHANGED <<vectorstores, documents, knowledge_graphs, cache, clock, batch_results,
                   calls, answered, succeeded, verifyVars, libVars>>

\* line 63; what load_ticker returned at line 62 is dropped
ReadIndex(t) ==
    /\ task[t].pc = "Q3"
    /\ task' = [task EXCEPT ![t] =
                   [@ EXCEPT !.vs = IF key(t) \in DOMAIN vectorstores
                                    THEN vectorstores[key(t)] ELSE NoVS,
                             !.load_ret = NoRet,
                             !.failure = "",
                             !.pc = "Q4"]]
    /\ UNCHANGED <<vectorstores, documents, knowledge_graphs, cache, clock, batch_results,
                   calls, answered, succeeded, verifyVars, libVars>>

graph_of(k) == IF k \in DOMAIN knowledge_graphs THEN knowledge_graphs[k] ELSE NoGraph

\* lines 64-66: no index
QueryNoData(t) ==
    /\ task[t].pc = "Q4"
    /\ ~task[t].vs.present
    /\ task' = [task EXCEPT ![t] =
                   returns(t, [@ EXCEPT !.kg = graph_of(key(t))],
                           [NoRet EXCEPT !.error = "no data"])]
    /\ UNCHANGED <<vectorstores, documents, knowledge_graphs, cache, clock, batch_results,
                   calls, answered, succeeded, verifyVars, libVars>>

\* lines 64-70: the generator raises
QueryGeneratorFails(t) ==
    /\ task[t].pc = "Q4"
    /\ task[t].vs.present
    /\ task' = [task EXCEPT ![t] =
                   raises(t, [@ EXCEPT !.kg = graph_of(key(t))], "GeneratorError")]
    /\ UNCHANGED <<vectorstores, documents, knowledge_graphs, cache, clock, batch_results,
                   calls, answered, succeeded, verifyVars, libVars>>

\* lines 64-74: the answer is generated, verified and given its confidence
QueryGenerate(t, hits, text) ==
    /\ task[t].pc = "Q4"
    /\ task[t].vs.present
    /\ hits \in search_similar_chunks(task[t].vs)
    /\ \E res \in {generate_answer(hits, text, graph_of(key(t)), task[t].ticker,
                                     task[t].ver)} :
           task' = [task EXCEPT ![t] =
                       IF res.raised # "none"
                       THEN raises(t, [@ EXCEPT !.kg = graph_of(key(t))], res.raised)
                       ELSE [@ EXCEPT !.kg = graph_of(key(t)),
                                      !.ret = with_confidence(res.value),
                                      !.pc = "audit"]]
    /\ UNCHANGED <<vectorstores, documents, knowledge_graphs, cache, clock, batch_results,
                   calls, answered, succeeded, verifyVars, libVars>>

\* lines 75-76: the audit record is stored under the second time.time()
\* gives, the answer is returned; now is the clock's reading, which has moved
\* on since the last reading or has not
Audit(t, now) ==
    /\ task[t].pc = "audit"
    /\ now \in clock..Min(clock + 1, MaxClock)
    /\ clock' = now
    /\ cache' = Put(cache, audit_key(now), audit_record(now, task[t]))
    /\ answered' = answered + 1
    /\ task' = [task EXCEPT ![t] = returns(t, task[t], task[t].ret)]
    /\ UNCHANGED <<vectorstores, documents, knowledge_graphs, batch_results,
                   calls, succeeded, verifyVars, libVars>>

\* batch_query's worker, lines 115-116: the result is appended under the
\* lock and the thread ends
AppendResult(t) ==
    /\ task[t].pc = "append"
    /\ batch_results' = Append(batch_results, task[t].ret)
    /\ task' = [task EXCEPT ![t] = [IdleTask EXCEPT !.pc = "done"]]
    /\ UNCHANGED <<vectorstores, documents, knowledge_graphs, cache, clock,
                   calls, answered, succeeded, verifyVars, libVars>>

(***************************************************************************)
(* embedding_manager.py: search_similar_chunks                             *)
(*                                                                         *)
(* Scores and thresholds are counted in hundredths.  The metadata of the   *)
(* i-th vector of an index is [chunk_id |-> i].                            *)
(***************************************************************************)
MaxIndexSize == 3   \* vectors of the index that is searched
MaxK == 3           \* the k that is asked for

FallbackScore == 80
PadScore == -1

\* the scores a search can meet
ScorePool == {50, 70, 95}

\* the dict {} the real path gives for a label past the metadata
NoMeta == [chunk_id |-> 0]

NoSearch ==
    [pc |-> "off", available |-> FALSE, metadata |-> <<>>, k |-> 0, threshold |-> 0,
     results |-> <<>>, raised |-> "none"]

\* metadata[:k], for k >= 0
Prefix(s, k) == SubSeq(s, 1, Min(k, Len(s)))

\* lines 89-93: the entries of metadata[:k] whose random score reaches the
\* threshold, in the order of the metadata
RECURSIVE mock_hits(_, _, _, _)
mock_hits(metas, scores, threshold, i) ==
    IF i > Len(metas) THEN <<>>
    ELSE (IF scores[i] >= threshold THEN <<[meta |-> metas[i], score |-> scores[i]]>> ELSE <<>>)
         \o mock_hits(metas, scores, threshold, i + 1)

\* the mock path, lines 86-94; scores are the values np.random.rand() gives.
\* Line 94 returns the results, or the first entry with score 0.8 when there
\* are none
mock_search(metas, scores, k, threshold) ==
    LET results == mock_hits(Prefix(metas, k), scores, threshold, 1)
    IN  IF results # <<>> THEN [raised |-> "none", results |-> results]
        ELSE IF metas = <<>> THEN [raised |-> "IndexError", results |-> <<>>]
        ELSE [raised |-> "none",
              results |-> <<[meta |-> metas[1], score |-> FallbackScore]>>]

\* list indexing with a label that may be negative
meta_at(metas, idx) ==
    IF idx >= Len(metas) THEN [raised |-> "none", meta |-> NoMeta]
    ELSE IF idx >= 0 THEN [raised |-> "none", meta |-> metas[idx + 1]]
    ELSE IF -idx <= Len(metas) THEN [raised |-> "none", meta |-> metas[Len(metas) + idx + 1]]
    ELSE [raised |-> "IndexError", meta |-> NoMeta]

\* lines 100-108: the hits of the index whose score reaches the threshold
RECURSIVE index_hits(_, _, _, _, _)
index_hits(metas, D, I, threshold, i) ==
    IF i > Len(D) THEN [raised |-> "none", results |-> <<>>]
    ELSE IF D[i] < threshold THEN index_hits(metas, D, I, threshold, i + 1)
    ELSE LET m == meta_at(metas, I[i])
             rest == index_hits(metas, D, I, threshold, i + 1)
         IN  IF m.raised # "none" THEN [raised |-> m.raised, results |-> <<>>]
             ELSE [rest EXCEPT !.results = <<[meta |-> m.meta, score |-> D[i]]>> \o @]

\* index.search(q, k) of line 99: k labels with their similarities, the best
\* first as line 102 takes them to be; an index of fewer than k vectors pads
\* with the label -1 and the lowest score
index_search_results(n, k) ==
    LET have == Min(k, n)
        labels == {l \in [1..have -> 0..(n - 1)] :
                       \A i, j \in 1..have : i # j => l[i] # l[j]}
        dists == {d \in [1..have -> ScorePool] :
                      \A i \in 1..have : i > 1 => d[i - 1] >= d[i]}
    IN  {[D |-> d \o [i \in 1..(k - have) |-> PadScore],
          I |-> l \o [i \in 1..(k - have) |-> -1]] : d \in dists, l \in labels}

\* the call is made on the mock path (sentence-transformers is missing)
MockSearch(scores) ==
    /\ search.pc = "call"
    /\ ~search.available
    /\ scores \in [1..Len(Prefix(search.metadata, search.k)) -> ScorePool]
    /\ \E r \in {mock_search(search.metadata, scores, search.k, search.threshold)} :
           search' = [search EXCEPT !.pc = "done", !.results = r.results,
                                    !.raised = r.raised]
    /\ UNCHANGED <<graph, metadata, metrics_history, saved, kg_ret, ops,
                   verifyVars, sessionVars>>

\* the call is made on the path of the real embeddings
IndexSearch(given) ==
    /\ search.pc = "call"
    /\ search.available
    /\ given \in index_search_results(Len(search.metadata), search.k)
    /\ \E r \in {index_hits(search.metadata, given.D, given.I, search.threshold, 1)} :
           search' = [search EXCEPT !.pc = "done", !.results = r.results,
                                    !.raised = r.raised]
    /\ UNCHANGED <<graph, metadata, metrics_history, saved, kg_ret, ops,
                   verifyVars, sessionVars>>

(***************************************************************************)
(* knowledge_graph.py: the graph, the company metadata and the history     *)
(*                                                                         *)
(* self.graph is a map from node to attributes and a map from <<source,    *)
(* target>> to attributes.  A metric's value is a float: an integer where  *)
(* trends are computed, and elsewhere the record of its tenths and its     *)
(* multiplier that extract_metrics_from_text gives.                        *)
(***************************************************************************)
MaxOps == 3     \* calls that change the knowledge graph

EmptyGraph == [nodes |-> EmptyMap, edges |-> EmptyMap]

\* dict.update(new) on attributes
Merge(old, new) ==
    [a \in DOMAIN old \cup DOMAIN new |-> IF a \in DOMAIN new THEN new[a] ELSE old[a]]

\* DiGraph.add_node(n, **attrs): the node is added, or its attributes updated
add_node(g, n, attrs) ==
    [g EXCEPT !.nodes =
        Put(g.nodes, n, IF n \in DOMAIN g.nodes THEN Merge(g.nodes[n], attrs) ELSE attrs)]

\* DiGraph.add_edge(u, v, **attrs): nodes that are missing are added bare
add_edge(g, u, v, attrs) ==
    [add_node(add_node(g, u, EmptyMap), v, EmptyMap) EXCEPT !.edges =
        Put(g.edges, <<u, v>>,
            IF <<u, v>> \in DOMAIN g.edges THEN Merge(g.edges[<<u, v>>], attrs) ELSE attrs)]

\* add_company_node, line 23
add_company_node(g, t, company_name, sector, market) ==
    add_node(g, t, [node_type |-> "company", name |-> company_name, sector |-> sector,
                    market |-> market])

\* add_metric_node, line 28
metric_key(t, metric_name, year) == t \o "_" \o metric_name \o "_" \o ToString(year)

\* add_metric_node, lines 28-37
add_metric_to_graph(g, t, metric_name, value, year) ==
    add_edge(add_node(g, metric_key(t, metric_name, year),
                      [node_type |-> "metric", ticker |-> t, metric |-> metric_name,
                       value |-> value, year |-> year]),
             t, metric_key(t, metric_name, year), [relationship |-> "has_metric"])

\* add_peer_relationship
add_peer_relationship(g, ticker1, ticker2, similarity) ==
    add_edge(g, ticker1, ticker2, [relationship |-> "peer", similarity |-> similarity])

\* get_peers, lines 62-66: self.graph[ticker] raises KeyError for a node the
\* graph does not have
get_peers(g, t) ==
    IF t \notin DOMAIN g.nodes THEN [raised |-> "KeyError", peers |-> {}]
    ELSE [raised |-> "none",
          peers |-> {e[2] : e \in {x \in DOMAIN g.edges :
                                       /\ x[1] = t
                                       /\ "relationship" \in DOMAIN g.edges[x]
                                       /\ g.edges[x].relationship = "peer"}}]

\* get_context_prompt, lines 177-195: the parts of the text
get_context_prompt(g, history, t) ==
    LET attrs == IF t \in DOMAIN g.nodes THEN g.nodes[t] ELSE EmptyMap
        metrics == IF t \in DOMAIN history THEN history[t] ELSE EmptyMap
        latest(yd) == CHOOSE y \in DOMAIN yd : \A z \in DOMAIN yd : z <= y
    IN  [raised |-> get_peers(g, t).raised,
         company |-> IF t \in DOMAIN g.nodes
                     THEN <<IF "name" \in DOMAIN attrs THEN attrs.name ELSE t,
                            IF "sector" \in DOMAIN attrs THEN attrs.sector ELSE "Unknown">>
                     ELSE <<>>,
         peers |-> get_peers(g, t).peers,
         metrics |-> [m \in {n \in DOMAIN metrics : metrics[n] # EmptyMap} |->
                         <<latest(metrics[m]), metrics[m][latest(metrics[m])]>>]]

\* extract_metrics_from_text, lines 167-168, on the graph
RECURSIVE add_metrics_to_graph(_, _, _, _, _)
add_metrics_to_graph(g, t, metrics, names, year) ==
    IF names = {} THEN g
    ELSE LET n == CHOOSE x \in names : TRUE
         IN  add_metrics_to_graph(add_metric_to_graph(g, t, n, metrics[n], year),
                                  t, metrics, names \ {n}, year)

(***************************************************************************)
(* save and load: the JSON document                                        *)
(***************************************************************************)
\* a reading that drops the decimal place
number_of_json_whole(j) == [tenths |-> 10 * ParseNat(IntDigits(j.digits)), scale |-> j.scale]

\* a float as json.dump writes it and json.load reads it
json_number(v) == [digits |-> Fmt1(v.tenths), scale |-> v.scale]
number_of_json(j) == [tenths |-> ParseFloat(j.digits), scale |-> j.scale]

\* {int(y): v for y, v in yd.items()}, line 222
int_keys(yd) ==
    [y \in {ParseNat(s) : s \in DOMAIN yd} |->
        number_of_json(yd[CHOOSE s \in DOMAIN yd : ParseNat(s) = y])]

NotSaved ==
    [exists |-> FALSE, nodes |-> EmptyMap, edges |-> EmptyMap,
     metrics_history |-> EmptyMap, metadata |-> EmptyMap]

\* save, lines 201-207: the document that is written; the numbers among the
\* attributes are written in digits, the years of line 204 are str(y)
save_data(g, md, history) ==
    LET json_attrs(attrs) ==
            [a \in DOMAIN attrs |->
                CASE a = "value" -> json_number(attrs[a])
                  [] a \in {"year", "similarity"} -> NatToStr(attrs[a])
                  [] OTHER -> attrs[a]]
        str_keys(yd) ==
            [s \in {NatToStr(y) : y \in DOMAIN yd} |->
                json_number(yd[CHOOSE y \in DOMAIN yd : NatToStr(y) = s])]
    IN  [exists |-> TRUE,
         nodes |-> [n \in DOMAIN g.nodes |-> json_attrs(g.nodes[n])],
         edges |-> [e \in DOMAIN g.edges |-> json_attrs(g.edges[e])],
         metrics_history |->
             [k \in DOMAIN history |->
                 [m \in DOMAIN history[k] |-> str_keys(history[k][m])]],
         metadata |-> md]

\* the attributes json.load gives
attrs_of_json(j) ==
    [a \in DOMAIN j |->
        CASE a = "value" -> number_of_json(j[a])
          [] a \in {"year", "similarity"} -> ParseNat(j[a])
          [] OTHER -> j[a]]

\* load, lines 216-220: the graph rebuilt from the document
RECURSIVE load_nodes(_, _, _)
load_nodes(g, nodes, left) ==
    IF left = {} THEN g
    ELSE LET n == CHOOSE x \in left : TRUE
         IN  load_nodes(add_node(g, n, attrs_of_json(nodes[n])), nodes, left \ {n})

RECURSIVE load_edges(_, _, _)
load_edges(g, edges, left) ==
    IF left = {} THEN g
    ELSE LET e == CHOOSE x \in left : TRUE
         IN  load_edges(add_edge(g, e[1], e[2], attrs_of_json(edges[e])), edges, left \ {e})

\* load, lines 212-225, into the store that holds g, md and history
load(g, md, history, data) ==
    IF ~data.exists THEN [graph |-> g, metadata |-> md, metrics_history |-> history]
    ELSE [graph |-> load_edges(load_nodes(EmptyGraph, data.nodes, DOMAIN data.nodes),
                               data.edges, DOMAIN data.edges),
          metadata |-> data.metadata,
          metrics_history |->
              [k \in DOMAIN data.metrics_history |->
                  [m \in DOMAIN data.metrics_history[k] |->
                      int_keys(data.metrics_history[k][m])]]]

(***************************************************************************)
(* Calls on the knowledge graph                                            *)
(***************************************************************************)
\* the last call on the knowledge graph: its name, arguments and return value
NoKGRet == [op |-> "none", args |-> <<>>, value |-> EmptyMap]

AddCompany(t, company_name, sector, now) ==
    /\ ops < MaxOps
    /\ graph' = add_company_node(graph, t, company_name, sector, "US")
    /\ metadata' = Put(metadata, t, [name |-> company_name, sector |-> sector,
                                     market |-> "US", created_at |-> now])
    /\ kg_ret' = [NoKGRet EXCEPT !.op = "add_company_node",
                                 !.args = <<t, company_name, sector>>]
    /\ ops' = ops + 1
    /\ UNCHANGED <<metrics_history, saved, search, verifyVars, sessionVars>>

AddMetric(t, metric_name, value, year) ==
    /\ ops < MaxOps
    /\ graph' = add_metric_to_graph(graph, t, metric_name, value, year)
    /\ metrics_history' = add_metric_node(metrics_history, t, metric_name, value, year)
    /\ kg_ret' = [NoKGRet EXCEPT !.op = "add_metric_node",
                                 !.args = <<t, metric_name, value, year>>]
    /\ ops' = ops + 1
    /\ UNCHANGED <<metadata, saved, search, verifyVars, sessionVars>>

AddPeer(ticker1, ticker2, similarity) ==
    /\ ops < MaxOps
    /\ graph' = add_peer_relationship(graph, ticker1, ticker2, similarity)
    /\ kg_ret' = [NoKGRet EXCEPT !.op = "add_peer_relationship",
                                 !.args = <<ticker1, ticker2, similarity>>]
    /\ ops' = ops + 1
    /\ UNCHANGED <<metadata, metrics_history, saved, search, verifyVars, sessionVars>>

ExtractMetrics(text, t, year) ==
    /\ ops < MaxOps
    /\ \E metrics \in {extracted_metrics(text)} :
           /\ graph' = add_metrics_to_graph(graph, t, metrics, DOMAIN metrics, year)
           /\ metrics_history' = add_all_metrics(metrics_history, t, metrics, year)
           /\ kg_ret' = [op |-> "extract_metrics_from_text", args |-> <<text, t, year>>,
                         value |-> metrics]
    /\ ops' = ops + 1
    /\ UNCHANGED <<metadata, saved, search, verifyVars, sessionVars>>

GetTrend(t, metric_name) ==
    /\ kg_ret' = [op |-> "get_trend", args |-> <<t, metric_name>>,
                  value |-> get_trend(KG(metrics_history), t, metric_name)]
    /\ UNCHANGED <<graph, metadata, metrics_history, saved, ops, search,
                   verifyVars, sessionVars>>

GetMetrics(t, metric_name) ==
    /\ kg_ret' = [op |-> "get_metrics", args |-> <<t, metric_name>>,
                  value |-> [raised |-> "none",
                             map |-> get_metrics(KG(metrics_history), t, metric_name).map]]
    /\ UNCHANGED <<graph, metadata, metrics_history, saved, ops, search,
                   verifyVars, sessionVars>>

GetPeers(t) ==
    /\ kg_ret' = [op |-> "get_peers", args |-> <<t>>, value |-> get_peers(graph, t)]
    /\ UNCHANGED <<graph, metadata, metrics_history, saved, ops, search,
                   verifyVars, sessionVars>>

GetContextPrompt(t) ==
    /\ kg_ret' = [op |-> "get_context_prompt", args |-> <<t>>,
                  value |-> get_context_prompt(graph, metrics_history, t)]
    /\ UNCHANGED <<graph, metadata, metrics_history, saved, ops, search,
                   verifyVars, sessionVars>>

Save ==
    /\ saved' = save_data(graph, metadata, metrics_history)
    /\ kg_ret' = [NoKGRet EXCEPT !.op = "save"]
    /\ UNCHANGED <<graph, metadata, metrics_history, ops, search, verifyVars, sessionVars>>

Load ==
    /\ \E r \in {load(graph, metadata, metrics_history, saved)} :
           /\ graph' = r.graph
           /\ metadata' = r.metadata
           /\ metrics_history' = r.metrics_history
    /\ kg_ret' = [NoKGRet EXCEPT !.op = "load"]
    /\ UNCHANGED <<saved, ops, search, verifyVars, sessionVars>>

KGInit ==
    /\ graph = EmptyGraph
    /\ metadata = EmptyMap
    /\ metrics_history = EmptyMap
    /\ saved = NotSaved
    /\ kg_ret = NoKGRet
    /\ ops = 0

SessionInit ==
    /\ vectorstores = EmptyMap
    /\ documents = EmptyMap
    /\ knowledge_graphs = EmptyMap
    /\ cache = EmptyMap
    /\ clock = 0
    /\ task = [t \in Tasks |-> IdleTask]
    /\ batch_results = <<>>
    /\ calls = 0
    /\ answered = 0
    /\ succeeded = {}

Init ==
    /\ SessionInit
    /\ answer = <<>>
    /\ source_chunks = <<>>
    /\ knowledge_graph = NoneKG
    /\ ticker = NoTicker
    /\ pc = "off"
    /\ ret = NoReturn
    /\ raised = "none"
    /\ search = NoSearch
    /\ KGInit

Next ==
    \/ \E req \in Requests : CallLoad(req)
    \/ \E req \in Requests, enable_verification \in BOOLEAN : CallQuery(req, enable_verification)
    \/ \E queries \in Batches : CallBatch(queries)
    \/ JoinThreads
    \/ \E t \in Tasks : LoadCached(t)
    \/ \E t \in Tasks, e \in Failures : LoadFail(t, e)
    \/ \E t \in Tasks, doc \in DocPool : LoadBuild(t, doc)
    \/ \E t \in Tasks : StoreIndex(t)
    \/ \E t \in Tasks : StoreChunks(t)
    \/ \E t \in Tasks : StoreGraph(t)
    \/ \E t \in Tasks : QueryCheck(t)
    \/ \E t \in Tasks : ReadIndex(t)
    \/ \E t \in Tasks : QueryNoData(t)
    \/ \E t \in Tasks : QueryGeneratorFails(t)
    \/ \E t \in Tasks, text \in AnswerPool :
           \E hits \in search_similar_chunks(task[t].vs) : QueryGenerate(t, hits, text)
    \/ \E t \in Tasks, now \in 0..MaxClock : Audit(t, now)
    \/ \E t \in Tasks : AppendResult(t)

Spec == Init /\ [][Next]_vars

(***************************************************************************)
(* The session over filings of more than one chunk                         *)
(***************************************************************************)
\* a filing whose second chunk restates the revenue of the first, and one
\* without a metric
FilingPool ==
    LET Early == <<W("revenue"), N(<<"3", "9", "4", ".", "3">>), W("Billion"),
                   W("income"), N(<<"9", "7">>), W("billion")>>
        Late == <<W("revenue"), N(<<"9", "7">>), W("billion")>>
        Prose == <<W("Revenue"), W("grew")>>
    IN  {<<Chunk(Early, Early), Chunk(Late, Late)>>, <<Chunk(Prose, Prose)>>}

NextY ==
    \/ \E req \in Requests : CallLoad(req)
    \/ \E req \in Requests, enable_verification \in BOOLEAN : CallQuery(req, enable_verification)
    \/ \E queries \in Batches : CallBatch(queries)
    \/ JoinThreads
    \/ \E t \in Tasks : LoadCached(t)
    \/ \E t \in Tasks, e \in Failures : LoadFail(t, e)
    \/ \E t \in Tasks, doc \in FilingPool : LoadBuild(t, doc)
    \/ \E t \in Tasks : StoreIndex(t)
    \/ \E t \in Tasks : StoreChunks(t)
    \/ \E t \in Tasks : StoreGraph(t)
    \/ \E t \in Tasks : QueryCheck(t)
    \/ \E t \in Tasks : ReadIndex(t)
    \/ \E t \in Tasks : QueryNoData(t)
    \/ \E t \in Tasks : QueryGeneratorFails(t)
    \/ \E t \in Tasks, text \in AnswerPool :
           \E hits \in search_similar_chunks(task[t].vs) : QueryGenerate(t, hits, text)
    \/ \E t \in Tasks, now \in 0..MaxClock : Audit(t, now)
    \/ \E t \in Tasks : AppendResult(t)

SpecY == Init /\ [][NextY]_vars

(***************************************************************************)
(* Calling verify_answer                                                   *)
(***************************************************************************)
\* a call that takes the chunks off the list it was given
VerifyAnswerConsuming ==
    /\ pc = "call"
    /\ \E r \in {verify_answer(answer, source_chunks, knowledge_graph, ticker)} :
           /\ ret' = r.value
           /\ raised' = r.raised
    /\ pc' = "done"
    /\ source_chunks' = <<>>
    /\ UNCHANGED <<answer, knowledge_graph, ticker, sessionVars, libVars>>

VerifyAnswer ==
    /\ pc = "call"
    /\ \E r \in {verify_answer(answer, source_chunks, knowledge_graph, ticker)} :
           /\ ret' = r.value
           /\ raised' = r.raised
    /\ pc' = "done"
    /\ UNCHANGED <<answer, source_chunks, knowledge_graph, ticker, sessionVars, libVars>>

InitVerify(answers, chunk_lists, graphs, tickers) ==
    /\ answer \in answers
    /\ source_chunks \in chunk_lists
    /\ knowledge_graph \in graphs
    /\ ticker \in tickers
    /\ pc = "call"
    /\ ret = NoReturn
    /\ raised = "none"
    /\ SessionInit
    /\ search = NoSearch
    /\ KGInit

(***************************************************************************)
(* Inputs of the checks of Agent E: numbers in the answer and in the chunks *)
(***************************************************************************)
MaxAnswerLenE == 3
MaxChunksE == 2

InitE ==
    LET VocabE ==
            {N(<<"3", "9", "4", ".", "3">>), N(<<"9", "9", "9">>), N(<<"0", "7">>),
             W("revenue"), Period}
        ChunkPoolE ==
            {Chunk(<<W("revenue"), N(<<"3", "9", "4", ".", "3">>)>>, <<>>),
             Chunk(<<>>, <<N(<<"7", "9", "9", "9">>), Period>>),
             Chunk(<<W("revenue")>>, <<N(<<"9", "9", "9">>)>>)}
    IN  InitVerify(SeqsUpTo(VocabE, MaxAnswerLenE), SeqsUpTo(ChunkPoolE, MaxChunksE),
                   {NoneKG}, {NoTicker})

SpecE == InitE /\ [][VerifyAnswer]_vars

(***************************************************************************)
(* Inputs of the checks of Agent V: sentences and chunks of words          *)
(***************************************************************************)
MaxSentencesV == 3
MaxChunksV == 2

RECURSIVE Sentences(_)
Sentences(ss) ==
    IF ss = <<>> THEN <<>> ELSE Head(ss) \o <<Period>> \o Sentences(Tail(ss))

InitV ==
    LET SentencePoolV ==
            {<<W("apple"), W("makes"), W("phones"), W("sells"), W("vaccines")>>,
             <<W("Revenue"), W("makes")>>,
             <<W("apple"), W("is")>>,
             <<W("the"), W("is"), W("the"), W("is")>>,
             <<W("vaccines"), W("sells"), W("the"), N(<<"2", "0", "2", "4">>)>>}
        ChunkPoolV ==
            {Chunk(<<W("apple"), W("makes"), W("revenue")>>, <<>>),
             Chunk(<<>>, <<W("Apple"), W("makes"), W("phones"), W("the")>>),
             Chunk(<<W("sells"), W("vaccines"), Period>>, <<W("apple")>>)}
    IN  InitVerify({Sentences(ss) : ss \in SeqsUpTo(SentencePoolV, MaxSentencesV)},
                   SeqsUpTo(ChunkPoolV, MaxChunksV), {NoneKG}, {NoTicker})

SpecV == InitV /\ [][VerifyAnswer]_vars

(***************************************************************************)
(* Inputs of the checks of Agent L: trend phrases and metric histories     *)
(***************************************************************************)
MaxAnswerLenL == 3

\* the histories add_metric_node can build: a metric that is present has a
\* year, a ticker that is present has a metric
HistoriesL ==
    LET YearMapsL == UNION {[Y -> {100, 120}] : Y \in (SUBSET {2023, 2024}) \ {{}}}
        MetricMapsL == UNION {[M -> YearMapsL] : M \in (SUBSET {"revenue", "margin"}) \ {{}}}
    IN  UNION {[T -> MetricMapsL] : T \in SUBSET {"AAPL"}}

InitL ==
    LET VocabL == {W("Revenue"), W("grew"), W("declined"), W("stable"), W("was"), W("flat")}
    IN  InitVerify(SeqsUpTo(VocabL, MaxAnswerLenL), {<<>>},
                   {NoneKG} \cup {KG(h) : h \in HistoriesL}, {NoTicker, "AAPL"})

SpecL == InitL /\ [][VerifyAnswer]_vars

(***************************************************************************)
(* Inputs of the checks of the framework: answers the three agents judge   *)
(* differently                                                             *)
(***************************************************************************)
MaxAnswerLenF == 3
MaxChunksF == 1

HistoriesF ==
    {[t \in {"AAPL"} |-> [m \in {"revenue"} |-> [y \in {2024} |-> 100]]],
     [t \in {"AAPL"} |-> [m \in {"revenue"} |-> [y \in {2023, 2024} |-> 100]]],
     [t \in {"AAPL"} |-> [m \in {"revenue"} |->
         [y \in {2023, 2024} |-> IF y = 2023 THEN 120 ELSE 100]]]}

VocabF == {W("Revenue"), W("grew"), W("stable"), N(<<"9", "9", "9">>), Period}

ChunkPoolF ==
    {Chunk(<<W("revenue"), W("grew"), N(<<"9", "9", "9">>)>>, <<>>),
     Chunk(<<W("revenue"), W("stable")>>, <<>>)}

AnswersF == SeqsUpTo(VocabF, MaxAnswerLenF)
ChunkListsF == SeqsUpTo(ChunkPoolF, MaxChunksF)
GraphsF == {NoneKG} \cup {KG(h) : h \in HistoriesF}

InitF == InitVerify(AnswersF, ChunkListsF, GraphsF, {"AAPL"})

SpecF == InitF /\ [][VerifyAnswer]_vars

(***************************************************************************)
(* Searching an index: the indexes, the k and the thresholds of the checks *)
(***************************************************************************)
VerifyIdle ==
    /\ answer = <<>>
    /\ source_chunks = <<>>
    /\ knowledge_graph = NoneKG
    /\ ticker = NoTicker
    /\ pc = "off"
    /\ ret = NoReturn
    /\ raised = "none"

InitS ==
    /\ search \in {[NoSearch EXCEPT !.pc = "call", !.available = a,
                                    !.metadata = [i \in 1..n |-> [chunk_id |-> i]],
                                    !.k = k, !.threshold = th] :
                       a \in BOOLEAN, n \in 0..MaxIndexSize, k \in 0..MaxK,
                       th \in {60, 90}}
    /\ KGInit
    /\ SessionInit
    /\ VerifyIdle

NextS ==
    \/ \E scores \in [1..Len(Prefix(search.metadata, search.k)) -> ScorePool] :
           MockSearch(scores)
    \/ \E given \in index_search_results(Len(search.metadata), search.k) :
           IndexSearch(given)

SpecS == InitS /\ [][NextS]_vars

(***************************************************************************)
(* Building, saving and loading a knowledge graph                          *)
(***************************************************************************)
\* "total revenue of $245.1 Billion. Net income was $88.2 Billion. margin
\* improved to 36%"; the $ before a number belongs to the number
ReportText ==
    <<W("total"), W("revenue"), W("of"), N(<<"2", "4", "5", ".", "1">>), W("Billion"), Period,
      W("Net"), W("income"), W("was"), N(<<"8", "8", ".", "2">>), W("Billion"), Period,
      W("margin"), W("improved"), W("to"), N(<<"3", "6">>), W("%")>>

\* "revenue: $245.1 Billion net income: $88.2 Billion margin: 36%"
TableText ==
    <<W("revenue"), N(<<"2", "4", "5", ".", "1">>), W("Billion"),
      W("net"), W("income"), N(<<"8", "8", ".", "2">>), W("Billion"),
      W("margin"), N(<<"3", "6">>), W("%")>>

TickersKG == {"AAPL", "AAPL_net"}

NextKG ==
    \/ \E t \in TickersKG : AddCompany(t, t, "Technology", "2024-01-01T00:00:00")
    \/ \E t \in TickersKG, m \in {"income", "net_income"}, y \in {2023, 2024},
          v \in {[tenths |-> 1000, scale |-> "1"], [tenths |-> 2005, scale |-> "1"]} :
           AddMetric(t, m, v, y)
    \/ \E t1 \in TickersKG, t2 \in TickersKG : AddPeer(t1, t2, 80)
    \/ \E text \in {ReportText, TableText}, t \in TickersKG, y \in {2023, 2024} :
           ExtractMetrics(text, t, y)
    \/ Save
    \/ Load

SpecKG == Init /\ [][NextKG]_vars

(***************************************************************************)
(* Texts for extract_metrics_from_text: the patterns of a family in turn    *)
(***************************************************************************)
TextsX ==
    LET five == N(<<"5">>)
        seven == N(<<"7", ".", "5">>)
    IN  {<<W("revenue"), five, W("million"), W("revenue"), seven, W("Billion")>>,
         <<W("sales"), five, W("billion"), W("revenue"), seven, W("million")>>,
         <<W("Revenue"), five, W("B"), W("profit"), seven, W("M"), W("margin"), five, W("%")>>,
         <<W("net"), W("profit"), five, W("million"), W("income"), seven, W("million"),
           W("EPS"), seven>>,
         <<W("margin"), seven, W("%"), W("margin"), five, W("%"), W("eps"), five, W("eps"), seven>>,
         <<W("revenue"), W("rose"), Period, W("EPS"), Comma, five>>,
         <<W("revenue"), Comma, W("billion"), W("revenue"), five, W("million")>>}

NextX ==
    \/ \E m \in {"revenue", "margin"}, y \in {2023, 2024} :
           AddMetric("AAPL", m, [tenths |-> 10, scale |-> "1"], y)
    \/ \E text \in TextsX, t \in {"AAPL", "MSFT"}, y \in {2023, 2024} :
           ExtractMetrics(text, t, y)

SpecX == Init /\ [][NextX]_vars

(***************************************************************************)
(* Reading the knowledge graph, also for a ticker it has never heard of    *)
(***************************************************************************)
TickersR == {"AAPL", "MSFT", "TSLA"}

NextR ==
    \/ \E t \in {"AAPL", "MSFT"} : AddCompany(t, t, "Technology", "2024-01-01T00:00:00")
    \/ \E t \in {"AAPL", "MSFT"}, y \in {2023, 2024} :
           AddMetric(t, "revenue", 100, y)
    \/ \E t1 \in {"AAPL", "MSFT"}, t2 \in {"AAPL", "MSFT"} : AddPeer(t1, t2, 80)
    \/ \E t \in TickersR, m \in {"", "revenue"} : GetMetrics(t, m)
    \/ \E t \in TickersR : GetTrend(t, "revenue")
    \/ \E t \in TickersR : GetPeers(t)
    \/ \E t \in TickersR : GetContextPrompt(t)

SpecR == Init /\ [][NextR]_vars

(***************************************************************************)
(* The trend of a metric's history                                         *)
(***************************************************************************)
NextT ==
    \/ \E v \in {-100, 0, 80, 95, 96, 100, 105, 106, 110, 120}, y \in {2020, 2021, 2022} :
           AddMetric("AAPL", "revenue", v, y)
    \/ \E t \in {"AAPL", "MSFT"}, m \in {"revenue", "margin"} : GetTrend(t, m)

SpecT == Init /\ [][NextT]_vars

(***************************************************************************)
(* Claims                                                                  *)
(***************************************************************************)
Returned == pc = "done" /\ raised = "none"
StatusOf(i) == ret.agent_results[i].status
PenaltyOf(i) == ret.agent_results[i].confidence_penalty

DirectionLabel(claimed) ==
    CASE claimed = "growth" -> "up" [] claimed = "decline" -> "down" [] OTHER -> "stable"

Disagrees(claim) ==
    LET tr == get_trend(knowledge_graph, ticker, Lower(claim.metric))
    IN  tr.trend # "unknown" /\ tr.trend # DirectionLabel(claim.trend)

C2_AnomalyIffDisagrees ==
    (Returned /\ ~knowledge_graph.is_none /\ ticker # NoTicker) =>
        LET claims == extract_trend_claims(answer)
            l == ret.agent_results[3]
        IN  /\ Len(l.flagged) = Cardinality({i \in 1..Len(claims) : Disagrees(claims[i])})
            /\ (l.status = "FAIL") <=> (\E i \in 1..Len(claims) : Disagrees(claims[i]))

\* C3: Agent E returns PASS exactly when no number is extracted or every
\* extracted number has a text form (integer, one decimal, two decimals) that
\* occurs in the text of some chunk; otherwise FAIL with penalty 0.3,
\* whatever the count of unverified numbers.
HasFormInSomeChunk(num) ==
    \E i \in 1..Len(source_chunks) : \E form \in {StrInt(num), Fmt1(num), Fmt2(num)} :
        InText(form, chunk_text_of(source_chunks[i]))

C3_AgentE ==
    Returned =>
        LET numbers == extract_numbers(answer)
            e == ret.agent_results[1]
        IN  /\ e.agent = "E"
            /\ e.status \in {"PASS", "FAIL"}
            /\ (e.status = "PASS") <=>
                   (numbers = <<>> \/ \A i \in 1..Len(numbers) : HasFormInSomeChunk(numbers[i].num))
            /\ e.confidence_penalty = (IF e.status = "FAIL" THEN 30 ELSE 0)

C3_Witness ==
    /\ Returned
    /\ StatusOf(1) = "FAIL"
    /\ Len(ret.agent_results[1].flagged) >= 2
    /\ Len(ret.agent_results[1].checked) >= 1

\* C4: Agent V returns PASS exactly when the answer has no claim (no fragment
\* longer than 10 characters) or every claim's best overlap ratio over the
\* chunks, |long claim words in the chunk| / |long claim words|, is strictly
\* greater than 0.4; otherwise FAIL with penalty 0.25 and at most two
\* unsupported excerpts reported.
LongWords(claim) == {LowerTok(claim[i]) : i \in {j \in 1..Len(claim) : TokLen(claim[j]) > 3}}

CommonWith(claim, i) ==
    Cardinality(LongWords(claim) \cap chunk_words(chunk_text_of(source_chunks[i])))

BestOverlapAbove40(claim) ==
    \E i \in 1..Len(source_chunks) : 5 * CommonWith(claim, i) > 2 * Cardinality(LongWords(claim))

C4_AgentV ==
    Returned =>
        LET frags == SplitAt(Explode(answer), <<>>)
            claims == {frags[i] : i \in {j \in 1..Len(frags) : StripLen(frags[j]) > 10}}
            v == ret.agent_results[2]
        IN  /\ v.agent = "V"
            /\ v.status \in {"PASS", "FAIL"}
            /\ (v.status = "PASS") <=> (\A c \in claims : BestOverlapAbove40(c))
            /\ v.confidence_penalty = (IF v.status = "FAIL" THEN 25 ELSE 0)
            /\ Len(v.corrections) <= 2
            /\ \A i \in 1..Len(v.corrections) : ~BestOverlapAbove40(v.corrections[i])

C4_Witness ==
    /\ Returned
    /\ StatusOf(2) = "FAIL"
    /\ Len(ret.agent_results[2].flagged) = 3
    /\ Len(ret.agent_results[2].corrections) = 2
    /\ \E i \in 1..Len(source_chunks) :
           /\ CommonWith(ret.agent_results[2].flagged[1], i) = 2
           /\ Cardinality(LongWords(ret.agent_results[2].flagged[1])) = 5

\* C5: verification never raises: for every answer, chunk list, store and
\* ticker, verify_answer ends by returning three PASS or FAIL results.
C5_NeverRaises ==
    pc = "done" =>
        /\ raised = "none"
        /\ \A i \in 1..3 : StatusOf(i) \in {"PASS", "FAIL"}

(***************************************************************************)
(* Claims about the session                                                *)
(***************************************************************************)
\* C6: the audit log is append-only: every query that returns an answer has
\* appended exactly one record and no record is ever overwritten, so the log
\* holds as many records as answers have been returned, however close
\* together in time the calls were
C6_AuditAppendOnly == Cardinality(DOMAIN cache) = answered

\* a query has returned an answer on thread t
AnswerReturned(t) ==
    task[t].op = "query" /\ task[t].pc \in {"done", "append"} /\ task[t].ret.has_answer

\* C7: the confidence query returns is the framework's final confidence for
\* the answer when verification ran, and otherwise the fallback heuristic
\* calculate_confidence_score of the answer and its sources
C7_ConfidenceSource ==
    \A t \in Tasks :
        AnswerReturned(t) =>
            task[t].ret.confidence_score =
                IF task[t].ver
                THEN verify_answer(task[t].ret.answer,
                                   verification_sources(task[t].ret.source_documents),
                                   task[t].kg, task[t].ticker).value.final_confidence_score
                ELSE calculate_confidence_score(task[t].ret.answer,
                                                task[t].ret.source_documents)

\* C8: load_ticker never raises: a call that has returned gave one of the
\* three statuses, and when a step of acquiring, validating, chunking,
\* embedding or indexing failed it returned status "error" with the
\* failure's message
C8_LoadNeverRaises ==
    \A t \in Tasks :
        /\ task[t].op = "load" => task[t].raised = "none"
        /\ (task[t].op = "load" /\ task[t].pc = "done") =>
               /\ task[t].ret.status \in {"cached", "loaded", "error"}
               /\ task[t].ret.status = "error" <=> task[t].failure # ""
        /\ task[t].failure # "" =>
               /\ task[t].raised = "none"
               /\ task[t].load_ret.status = "error"
               /\ task[t].load_ret.error = task[t].failure

C8_Witness ==
    \E t \in Tasks :
        /\ task[t].op = "load" /\ task[t].pc = "done"
        /\ task[t].failure \in Failures
        /\ task[t].ret.status = "error" /\ task[t].ret.error = task[t].failure

\* C9: query never raises past the orchestrator: no exception leaves a call
\* of query, on the main thread or on a thread of batch_query
C9_QueryNeverRaises == \A t \in Tasks : task[t].op = "query" => task[t].raised = "none"

\* the step leaves the objects held for key k as they are
SameObjects(k) ==
    /\ k \in DOMAIN vectorstores' /\ vectorstores'[k] = vectorstores[k]
    /\ k \in DOMAIN documents' /\ documents'[k] = documents[k]
    /\ k \in DOMAIN knowledge_graphs' /\ knowledge_graphs'[k] = knowledge_graphs[k]

\* a load_ticker for key k that starts in this step returns "cached" and
\* has called no collaborator
LoadStartsCached(k) ==
    \A t \in Tasks :
        (task[t].pc = "L1" /\ key(t) = k /\ task'[t] # task[t]) =>
            /\ task'[t].load_ret.status = "cached"
            /\ task'[t].failure = "" /\ task'[t].chunks = <<>>
            /\ task'[t].raised = "none"

\* a load_ticker for key k that found the key absent is still at work
LoadInFlight(k) == \E t \in Tasks : key(t) = k /\ task[t].pc \in {"L3", "L4", "L5"}

AllJoined ==
    /\ task[MainThread].pc = "join"
    /\ \A w \in Workers : task[w].pc \in {"idle", "done", "dead"}

\* C11: the list batch_query returns, once every thread has ended, holds
\* exactly one result for each request, also when a thread's query failed
C11_OneResultPerRequest ==
    AllJoined => Len(batch_results) = Cardinality({w \in Workers : task[w].pc # "idle"})

(***************************************************************************)
(* Claims about the search                                                 *)
(***************************************************************************)
\* C12: for every k and threshold, on the mock path and on the path of the
\* real embeddings, a search that returns gives at most k entries, each
\* with a score of at least the threshold, ordered by descending score
C12_SearchContract ==
    (search.pc = "done" /\ search.raised = "none") =>
        /\ Len(search.results) <= search.k
        /\ \A i \in 1..Len(search.results) : search.results[i].score >= search.threshold
        /\ \A i \in 2..Len(search.results) :
               search.results[i - 1].score >= search.results[i].score

\* C13: a search of an index without vectors and metadata returns the empty
\* list and does not raise
C13_EmptyIndexReturnsEmpty ==
    (search.pc = "done" /\ search.metadata = <<>>) =>
        search.raised = "none" /\ search.results = <<>>

(***************************************************************************)
(* Claims about the knowledge graph                                        *)
(***************************************************************************)
\* the metric nodes the graph holds for a ticker, a metric name and a year
MetricNodes(g, t, m, y) ==
    {n \in DOMAIN g.nodes :
        /\ "node_type" \in DOMAIN g.nodes[n]
        /\ g.nodes[n].node_type = "metric"
        /\ g.nodes[n].ticker = t /\ g.nodes[n].metric = m /\ g.nodes[n].year = y}

\* the history has an entry for the ticker, the metric name and the year
HasEntry(h, t, m, y) ==
    t \in DOMAIN h /\ m \in DOMAIN h[t] /\ y \in DOMAIN h[t][m]

\* C14: add_metric_node is an idempotent upsert keyed by ticker, metric name
\* and year: after a call, whatever was added under the key before, the graph
\* has exactly one metric node and the history exactly one entry for the
\* key, both with the value of the call, and the identical call repeated
\* leaves graph and history unchanged
C14_AddMetricUpsert ==
    kg_ret.op = "add_metric_node" =>
        LET t == kg_ret.args[1]
            m == kg_ret.args[2]
            v == kg_ret.args[3]
            y == kg_ret.args[4]
        IN  /\ Cardinality(MetricNodes(graph, t, m, y)) = 1
            /\ \A n \in MetricNodes(graph, t, m, y) : graph.nodes[n].value = v
            /\ HasEntry(metrics_history, t, m, y)
            /\ metrics_history[t][m][y] = v
            /\ add_metric_to_graph(graph, t, m, v, y) = graph
            /\ add_metric_node(metrics_history, t, m, v, y) = metrics_history

\* the second of two calls for one key has replaced the value of the first
C14_Witness ==
    /\ kg_ret.op = "add_metric_node"
    /\ ops = 2
    /\ kg_ret.args[3].tenths = 2005
    /\ Cardinality(DOMAIN graph.nodes) = 2
    /\ Cardinality(DOMAIN graph.edges) = 1

\* C15: after any sequence of add_company_node, add_metric_node,
\* add_peer_relationship and extract_metrics_from_text the history and the
\* graph agree: the history maps a ticker, metric name and year to a value
\* exactly when the graph holds a metric node of that ticker, metric name
\* and year with that value, so that different keys have different nodes
C15_IndexAgreesWithGraph ==
    /\ \A t \in DOMAIN metrics_history :
           \A m \in DOMAIN metrics_history[t] :
               \A y \in DOMAIN metrics_history[t][m] :
                   \E n \in MetricNodes(graph, t, m, y) :
                       graph.nodes[n].value = metrics_history[t][m][y]
    /\ \A n \in DOMAIN graph.nodes :
           ("node_type" \in DOMAIN graph.nodes[n] /\ graph.nodes[n].node_type = "metric") =>
               /\ HasEntry(metrics_history, graph.nodes[n].ticker, graph.nodes[n].metric,
                           graph.nodes[n].year)
               /\ metrics_history[graph.nodes[n].ticker][graph.nodes[n].metric]
                                 [graph.nodes[n].year] = graph.nodes[n].value

\* the trend of a first and a last value as the claim gives it
BandTrend(first, last) ==
    IF first = 0 THEN "stable"
    ELSE IF (last - first) * 100 > 5 * Abs(first) THEN "up"
    ELSE IF (last - first) * 100 < -5 * Abs(first) THEN "down"
    ELSE "stable"

\* the years of a metric in the history, none when it is not tracked
YearsOf(h, t, m) == IF t \in DOMAIN h /\ m \in DOMAIN h[t] THEN DOMAIN h[t][m] ELSE {}

\* C16: get_trend returns unknown for a metric with fewer than two years;
\* otherwise it compares the value of the earliest year with the value of the
\* latest year only: up above +5% of |first|, down below -5%, stable
\* otherwise, also at exactly +5% and -5% and for a first value of 0
C16_TrendBand ==
    kg_ret.op = "get_trend" =>
        LET years == YearsOf(metrics_history, kg_ret.args[1], kg_ret.args[2])
        IN  /\ kg_ret.value.raised = "none"
            /\ Cardinality(years) < 2 =>
                   /\ kg_ret.value.trend = "unknown"
                   /\ kg_ret.value.years = <<>> /\ kg_ret.value.values = <<>>
            /\ Cardinality(years) >= 2 =>
                   LET h == metrics_history[kg_ret.args[1]][kg_ret.args[2]]
                       earliest == CHOOSE y \in years : \A z \in years : y <= z
                       latest == CHOOSE y \in years : \A z \in years : y >= z
                   IN  /\ kg_ret.value.trend = BandTrend(h[earliest], h[latest])
                       /\ Len(kg_ret.value.years) = Cardinality(years)
                       /\ \A i \in 1..Len(kg_ret.value.years) :
                              kg_ret.value.values[i] = h[kg_ret.value.years[i]]

\* the history 100, 110, 120 of three years is up, whatever the year between
C16_Witness ==
    /\ kg_ret.op = "get_trend"
    /\ kg_ret.value.values = <<100, 110, 120>>
    /\ kg_ret.value.trend = "up"

\* trends at the edge of the band: 100 to 105 and 100 to 95 are stable
C16_WitnessEdge ==
    /\ kg_ret.op = "get_trend"
    /\ kg_ret.value.values \in {<<100, 105>>, <<100, 95>>}
    /\ kg_ret.value.trend = "stable"

\* C17: extract_metrics_from_text on "total revenue of $245.1 Billion. Net
\* income was $88.2 Billion. ... margin improved to 36%" returns revenue
\* 245.1e9, net_income 88.2e9 and margin 36.0, the words between a metric's
\* name and its value notwithstanding
C17_ExtractsFromProse ==
    (kg_ret.op = "extract_metrics_from_text" /\ kg_ret.args[1] = ReportText) =>
        /\ {"revenue", "net_income", "margin"} \subseteq DOMAIN kg_ret.value
        /\ kg_ret.value["revenue"] = [tenths |-> 2451, scale |-> "1e9"]
        /\ kg_ret.value["net_income"] = [tenths |-> 882, scale |-> "1e9"]
        /\ kg_ret.value["margin"] = [tenths |-> 360, scale |-> "1"]

\* the same figures with each value right after the metric's name are extracted
C17_ExtractsFromTable ==
    (kg_ret.op = "extract_metrics_from_text" /\ kg_ret.args[1] = TableText) =>
        /\ {"revenue", "net_income", "margin"} \subseteq DOMAIN kg_ret.value
        /\ kg_ret.value["revenue"] = [tenths |-> 2451, scale |-> "1e9"]
        /\ kg_ret.value["net_income"] = [tenths |-> 882, scale |-> "1e9"]
        /\ kg_ret.value["margin"] = [tenths |-> 360, scale |-> "1"]

\* the agents whose result in a returned report is FAIL
FailedAgents(report) ==
    {report.agent_results[i].agent : i \in {j \in 1..Len(report.agent_results) :
                                              report.agent_results[j].status = "FAIL"}}

\* the reports verify_answer returns for the ticker on the answers, chunks and
\* graphs drawn
ReportsF ==
    {r.value : r \in {v \in {verify_answer(a, c, g, ticker) :
                                 a \in AnswersF, c \in ChunkListsF, g \in GraphsF} :
                          v.raised = "none"}}

\* C18: two failing agents can drive the score to 0: some verification of an
\* answer about the ticker in which exactly two agents fail and the third
\* passes has final confidence 0
C18_TwoFailuresReachZero ==
    \E report \in ReportsF :
        /\ Cardinality(FailedAgents(report)) = 2
        /\ report.final_confidence_score = 0

\* with exactly two failing agents the score is 0.60 less the two penalties,
\* which is 0.05 for E and V, 0.20 for E and L and 0.25 for V and L
C18_TwoFailuresStayPositive ==
    (pc = "done" /\ raised = "none" /\ Cardinality(FailedAgents(ret)) = 2) =>
        ret.final_confidence_score =
            (IF FailedAgents(ret) = {"E", "V"} THEN 5
             ELSE IF FailedAgents(ret) = {"E", "L"} THEN 15 ELSE 20)

C18_WitnessEV == pc = "done" /\ raised = "none" /\ FailedAgents(ret) = {"E", "V"}
C18_WitnessEL == pc = "done" /\ raised = "none" /\ FailedAgents(ret) = {"E", "L"}
C18_WitnessVL == pc = "done" /\ raised = "none" /\ FailedAgents(ret) = {"V", "L"}

\* C19: when an agent fails the final confidence is reduced but stays within
\* 0.60 to 0.80, and when Agent E fails alone it is 0.95 - 0.30 = 0.65
C19_FailureBand ==
    (pc = "done" /\ raised = "none" /\ FailedAgents(ret) # {}) =>
        /\ ret.final_confidence_score >= 60
        /\ ret.final_confidence_score <= 80
        /\ ret.final_confidence_score < BasePass
        /\ FailedAgents(ret) = {"E"} => ret.final_confidence_score = 65

\* a failing agent takes the base 0.60 and its own penalty with it: one
\* failure gives 0.30 (E), 0.35 (V) or 0.45 (L), never more than 0.45
C19_FailureBelowBand ==
    (pc = "done" /\ raised = "none" /\ FailedAgents(ret) # {}) =>
        /\ ret.final_confidence_score <= 45
        /\ FailedAgents(ret) = {"E"} => ret.final_confidence_score = 30
        /\ FailedAgents(ret) = {"V"} => ret.final_confidence_score = 35
        /\ FailedAgents(ret) = {"L"} => ret.final_confidence_score = 45

C19_WitnessEAlone == pc = "done" /\ raised = "none" /\ FailedAgents(ret) = {"E"}

\* C20: the store round-trips through save and load exactly: loading the
\* saved document into a fresh store gives the same nodes and edges with
\* their attributes, the same metadata and the same ticker -> metric -> year
\* -> value history with integer years and equal values; the store a load
\* leaves writes the document it was loaded from
C20_SaveLoadRoundTrip ==
    /\ load(EmptyGraph, EmptyMap, EmptyMap, save_data(graph, metadata, metrics_history))
           = [graph |-> graph, metadata |-> metadata, metrics_history |-> metrics_history]
    /\ (kg_ret.op = "load" /\ saved.exists) =>
           /\ save_data(graph, metadata, metrics_history) = saved
           /\ \A k \in DOMAIN metrics_history : \A m \in DOMAIN metrics_history[k] :
                  DOMAIN metrics_history[k][m] \subseteq Int

\* a load of a saved document with a company, a metric node, its edge and its
\* history entry, after three changes of the store
C20_Witness ==
    /\ kg_ret.op = "load"
    /\ saved.exists
    /\ ops = MaxOps
    /\ metadata # EmptyMap
    /\ metrics_history # EmptyMap
    /\ Cardinality(DOMAIN graph.nodes) = 2
    /\ Cardinality(DOMAIN graph.edges) = 1

\* the words that state a trend
TrendWords == GrowthVerbs \cup DeclineVerbs \cup StableWords \cup BareStableWords

HasTrendWord(text) == \E i \in 1..Len(text) : IsOneOf(text[i], TrendWords)

\* C21: Agent L returns PASS with penalty 0 whenever no knowledge graph is
\* supplied, no ticker is supplied, or the answer holds no trend claim (as an
\* answer without a trend word does), whatever else the answer says
C21_AgentLVacuousPass ==
    pc = "done" =>
        /\ ~HasTrendWord(answer) => extract_trend_claims(answer) = <<>>
        /\ (\/ knowledge_graph.is_none
            \/ ticker = NoTicker
            \/ extract_trend_claims(answer) = <<>>) =>
               /\ raised = "none"
               /\ ret.agent_results[3].agent = "L"
               /\ StatusOf(3) = "PASS"
               /\ PenaltyOf(3) = 0

\* Agent L passes an answer with a trend claim for want of a knowledge graph
C21_Witness ==
    /\ Returned
    /\ knowledge_graph.is_none
    /\ ticker = "AAPL"
    /\ extract_trend_claims(answer) # <<>>
    /\ StatusOf(3) = "PASS" /\ PenaltyOf(3) = 0

\* Agent L passes an answer without a trend claim although the graph has a
\* history for the ticker
C21_WitnessNoClaim ==
    /\ Returned
    /\ ~knowledge_graph.is_none /\ ticker = "AAPL"
    /\ "AAPL" \in DOMAIN knowledge_graph.metrics_history
    /\ Len(answer) = MaxAnswerLenL
    /\ extract_trend_claims(answer) = <<>>
    /\ StatusOf(3) = "PASS" /\ PenaltyOf(3) = 0

\* C22: there is no short-circuiting: whenever verify_answer returns, its
\* agent_results are exactly three, of E, V and L in this order, and each is
\* what the agent returns on the answer by itself, also when E or V failed
C22_NoShortCircuit ==
    Returned =>
        /\ Len(ret.agent_results) = 3
        /\ [i \in 1..3 |-> ret.agent_results[i].agent] = <<"E", "V", "L">>
        /\ ret.agent_results[1] = AgentE_verify(answer, source_chunks)
        /\ ret.agent_results[2] = AgentV_verify(answer, source_chunks)
        /\ ret.agent_results[3] = AgentL_verify(answer, knowledge_graph, ticker).result

\* E and V have failed and the result of L, which fails too, is there
C22_Witness ==
    /\ Returned
    /\ Len(ret.agent_results) = 3
    /\ StatusOf(1) = "FAIL" /\ StatusOf(2) = "FAIL" /\ StatusOf(3) = "FAIL"
    /\ Len(ret.agent_results[3].flagged) > 0

\* C23: concurrent load_ticker calls for one key do not corrupt it: once no
\* load of the key is at work, the key's index, chunk list and knowledge graph
\* are the three objects built by one and the same call
C23_OneBuildPerKey ==
    \A k \in DOMAIN vectorstores :
        ~LoadInFlight(k) =>
            /\ k \in DOMAIN documents
            /\ k \in DOMAIN knowledge_graphs
            /\ documents[k].build = vectorstores[k].build
            /\ knowledge_graphs[k].build = vectorstores[k].build

\* a query on thread t is between its test of the key and its return
Querying(t, k) == task[t].op = "query" /\ key(t) = k /\ task[t].pc \in {"Q3", "Q4"}

\* C24: in the states a query can observe, the middle of a concurrent
\* load_ticker included, a key has its index, chunk list and knowledge graph
\* all present or all absent, so no query uses the key's index without the
\* key's knowledge graph
C24_AllOrNothing ==
    /\ \A k \in DOMAIN vectorstores \cup DOMAIN documents \cup DOMAIN knowledge_graphs :
           (\E t \in Tasks : Querying(t, k)) =>
               /\ k \in DOMAIN vectorstores
               /\ k \in DOMAIN documents
               /\ k \in DOMAIN knowledge_graphs
    /\ \A t \in Tasks :
           (task[t].op = "query" /\ task[t].pc \in {"audit", "append"} /\ task[t].vs.present)
               => ~task[t].kg.is_none

\* the patterns of family m that match the text somewhere, by their place in
\* the family's order
MatchingPatterns(text, m) ==
    {j \in 1..Len(MetricPatterns[m]) : re_search(text, MetricPatterns[m][j]) # 0}

\* what the family's first matching pattern captures: the number of its
\* leftmost match, with the pattern's multiplier
FirstMatchValue(text, m) ==
    LET j == CHOOSE x \in MatchingPatterns(text, m) : \A z \in MatchingPatterns(text, m) : x <= z
        tok == text[re_search(text, MetricPatterns[m][j]) + 1]
    IN  [tenths |-> IF tok.k = "n" THEN ParseFloat(tok.d) ELSE -1,
         scale |-> MetricPatterns[m][j].scale]

\* the entries of a history as (ticker, metric, year, value)
Entries(h) ==
    UNION {UNION {{<<t, m, y, h[t][m][y]>> : y \in DOMAIN h[t][m]} : m \in DOMAIN h[t]} :
           t \in DOMAIN h}

\* the call of extract_metrics_from_text that this step makes returns, for
\* every family with a matching pattern, the value of the first one, upserts
\* each and changes no other entry of the history
ExtractsFirstMatches ==
    LET text == kg_ret'.args[1]
        t == kg_ret'.args[2]
        year == kg_ret'.args[3]
        M == kg_ret'.value
        Others(h) == {e \in Entries(h) : ~(e[1] = t /\ e[2] \in DOMAIN M /\ e[3] = year)}
    IN  /\ DOMAIN M = {m \in DOMAIN MetricPatterns : MatchingPatterns(text, m) # {}}
        /\ \A m \in DOMAIN M : M[m] = FirstMatchValue(text, m)
        /\ \A m \in DOMAIN M : <<t, m, year, M[m]>> \in Entries(metrics_history')
        /\ Others(metrics_history') = Others(metrics_history)

\* C25: extract_metrics_from_text returns at most one value per family
\* (revenue, net_income, margin, eps), each from the first pattern of the
\* family's order that matches, later patterns not being consulted; after the
\* call the history's value for (ticker, metric, year) is the returned value
\* for every returned metric and no other entry has changed
C25_FirstPatternUpsert ==
    [][kg_ret'.op = "extract_metrics_from_text" => ExtractsFirstMatches]_vars

\* some pattern of the text matches a group of commas, which is no number
CommaGroup(text) ==
    \E m \in DOMAIN MetricPatterns : \E j \in 1..Len(MetricPatterns[m]) :
        /\ re_search(text, MetricPatterns[m][j]) # 0
        /\ text[re_search(text, MetricPatterns[m][j]) + 1].k = "c"

\* the same for the calls on texts in which every match captures digits
C25_FirstPatternUpsertOfNumbers ==
    [][(kg_ret'.op = "extract_metrics_from_text" /\ ~CommaGroup(kg_ret'.args[1]))
           => ExtractsFirstMatches]_vars

\* "revenue 5 million revenue 7.5 Billion" gave 7.5e9 for 2024 and left the
\* revenue of 2023 alone
C25_Witness ==
    /\ kg_ret.op = "extract_metrics_from_text"
    /\ kg_ret.args[1][3] = W("million") /\ kg_ret.args[1][6] = W("Billion")
    /\ kg_ret.args[2] = "AAPL" /\ kg_ret.args[3] = 2024
    /\ kg_ret.value = [m \in {"revenue"} |-> [tenths |-> 75, scale |-> "1e9"]]
    /\ metrics_history["AAPL"]["revenue"] =
           [y \in {2023, 2024} |-> IF y = 2023 THEN [tenths |-> 10, scale |-> "1"]
                                   ELSE [tenths |-> 75, scale |-> "1e9"]]

\* the numbers that appear in a text
NumbersIn(text) == {ParseFloat(text[i].d) : i \in {j \in 1..Len(text) : text[j].k = "n"}}

\* C26: Agent E extracts every number that appears in the answer, whatever
\* follows it (a label, further words, another number, no punctuation), so an
\* answer with a number that occurs in no source chunk yields FAIL
C26_EveryNumberChecked ==
    Returned =>
        /\ NumbersIn(answer) =
               {extract_numbers(answer)[i].num : i \in 1..Len(extract_numbers(answer))}
        /\ (\E num \in NumbersIn(answer) : ~HasFormInSomeChunk(num)) => StatusOf(1) = "FAIL"

\* a number at the end of the answer or before a punctuation mark, a label in
\* between or not, is extracted and checked
C26_NumbersBeforeAnEndChecked ==
    Returned =>
        \A i \in 1..Len(answer) :
            (/\ answer[i].k = "n"
             /\ LET j == NextNonWord(answer, i + 1) IN j > Len(answer) \/ answer[j].k = "p"
             /\ ~HasFormInSomeChunk(ParseFloat(answer[i].d)))
                => StatusOf(1) = "FAIL"

\* the fixed penalty of an agent
FixedPenalty(agent) == CASE agent = "E" -> 30 [] agent = "V" -> 25 [] OTHER -> 15

NeverAdded(t) ==
    t \notin DOMAIN graph.nodes /\ t \notin DOMAIN metrics_history /\ t \notin DOMAIN metadata

\* C29: for a ticker that was never added, get_metrics, get_trend, get_peers
\* and get_context_prompt return an empty or unknown result (empty map,
\* unknown trend, no peers, a text without company, peers or metrics) and
\* none of them raises
C29_ReadsOfUnknownTicker ==
    (kg_ret.op \in {"get_metrics", "get_trend", "get_peers", "get_context_prompt"}
         /\ NeverAdded(kg_ret.args[1])) =>
        /\ kg_ret.value.raised = "none"
        /\ kg_ret.op = "get_metrics" => kg_ret.value.map = EmptyMap
        /\ kg_ret.op = "get_trend" =>
               kg_ret.value.trend = "unknown" /\ kg_ret.value.years = <<>>
        /\ kg_ret.op = "get_peers" => kg_ret.value.peers = {}
        /\ kg_ret.op = "get_context_prompt" =>
               /\ kg_ret.value.company = <<>>
               /\ kg_ret.value.peers = {}
               /\ kg_ret.value.metrics = EmptyMap

\* get_metrics and get_trend on a ticker that was never added return the
\* empty map and the unknown trend
C29_HistoryReadsOfUnknownTicker ==
    (kg_ret.op \in {"get_metrics", "get_trend"} /\ NeverAdded(kg_ret.args[1])) =>
        /\ kg_ret.value.raised = "none"
        /\ kg_ret.op = "get_metrics" => kg_ret.value.map = EmptyMap
        /\ kg_ret.op = "get_trend" =>
               kg_ret.value.trend = "unknown" /\ kg_ret.value.years = <<>>

\* the reads of a ticker the graph has as a node do not raise
C29_ReadsOfKnownNode ==
    (kg_ret.op \in {"get_peers", "get_context_prompt"}
         /\ kg_ret.args[1] \in DOMAIN graph.nodes) => kg_ret.value.raised = "none"

\* the requests whose key has a knowledge graph that load_ticker stored
Loaded == {req \in Requests : key_of(req.ticker, req.market) \in DOMAIN knowledge_graphs}

\* the names get_trend is asked about: the names of the families, and the
\* words an answer puts before a verb
MetricNames == {"revenue", "net_income", "margin", "eps", "income", "sales", "profit"}

\* answers with a trend claim of every kind
TrendAnswers ==
    {<<W("Revenue"), W("grew")>>, <<W("revenue"), W("declined")>>,
     <<W("revenue"), W("stable")>>, <<W("income"), W("flat")>>,
     <<W("income"), W("consistent")>>, <<W("income"), W("fell"), W("revenue"), W("rose")>>}

\* the value of metric m in the last chunk that has one
LastValue(chunks, m) ==
    LET having == {i \in 1..Len(chunks) : m \in DOMAIN extracted_metrics(chunks[i].text)}
        last == CHOOSE i \in having : \A j \in having : j <= i
    IN  extracted_metrics(chunks[last].text)[m]

\* the metrics some chunk has a value of
MetricsOf(chunks) == UNION {DOMAIN extracted_metrics(chunks[i].text) : i \in 1..Len(chunks)}

\* the metrics the graph tracks for ticker t
Tracked(kg, t) == IF t \in DOMAIN kg.metrics_history THEN kg.metrics_history[t] ELSE EmptyMap

\* C30: a knowledge graph that load_ticker stored has every metric of its
\* chunks under the one year 2024, with the value of the last chunk that has
\* the metric; get_trend gives unknown for every metric name; and Agent L
\* returns FAIL for no answer, the answers with "flat" or "consistent", for
\* which it may raise instead of returning, included
C30_SingleYearNeverFails ==
    \A req \in Loaded :
        LET k == key_of(req.ticker, req.market)
            kg == knowledge_graphs[k]
            history == Tracked(kg, req.ticker)
        IN  /\ \A m \in DOMAIN history : DOMAIN history[m] = {ExtractionYear}
            /\ (k \in DOMAIN documents /\ documents[k].build = kg.build) =>
                   /\ DOMAIN history = MetricsOf(documents[k].chunks)
                   /\ \A m \in DOMAIN history :
                          history[m][ExtractionYear] = LastValue(documents[k].chunks, m)
            /\ \A m \in MetricNames : get_trend(kg, req.ticker, m) = UnknownTrend
            /\ \A text \in TrendAnswers \cup AnswerPool :
                   LET l == AgentL_verify(text, kg, req.ticker)
                   IN  l.raised = "none" => l.result.status = "PASS"

\* a stored graph whose revenue is the later chunk's, asked by a query that
\* returned a verified answer
C30_Witness ==
    \E req \in Loaded, t \in Tasks :
        LET k == key_of(req.ticker, req.market)
        IN  /\ k \in DOMAIN documents
            /\ documents[k].build = knowledge_graphs[k].build
            /\ Len(documents[k].chunks) = 2
            /\ extracted_metrics(documents[k].chunks[1].text)
                   # extracted_metrics(documents[k].chunks[2].text)
            /\ "revenue" \in DOMAIN Tracked(knowledge_graphs[k], req.ticker)
            /\ task[t].op = "query" /\ key(t) = k /\ task[t].pc = "done"
            /\ task[t].kg = knowledge_graphs[k]
            /\ task[t].ret.all_agents_pass # "none"

\* the empty name, which Agent L takes from "flat" and "consistent": get_trend
\* raises for it once the graph tracks two metrics, and returns unknown before
C30_EmptyNameRaisesOrUnknown ==
    \A req \in Loaded :
        LET kg == knowledge_graphs[key_of(req.ticker, req.market)]
            tr == get_trend(kg, req.ticker, "")
        IN  /\ tr.trend = "unknown"
            /\ tr.raised = IF Cardinality(DOMAIN Tracked(kg, req.ticker)) >= 2
                           THEN "TypeError" ELSE "none"

====
